---- MODULE Spec2Model ----
(***************************************************************************)
(* Order-execution pipeline of crypto-order-execution-engine:              *)
(*   intake (OrdersController.execute / OrderService.submitMarketOrder),   *)
(*   the BullMQ queue (orderQueue) and its worker (orderProcessor,         *)
(*   recordStatus, acquireRateLimit, the 'failed' listener),               *)
(*   the subscriber hub (WebSocketManager) and the order_history rows.     *)
(*                                                                         *)
(* One step of the model is one run of JavaScript between two awaits:      *)
(* Node runs a handler to its next await without interleaving, and other   *)
(* handlers may run at every await.                                        *)
(***************************************************************************)
EXTENDS Integers, Sequences, FiniteSets, TLC

(***************************************************************************)
(* Bounds and program constants                                            *)
(***************************************************************************)

\* Order ids and client connections of the model.
Orders == {"o1", "o2"}
Sockets == {"s1", "s2"}

\* env.queue.retryAttempts: attempts per job (orderQueue defaultJobOptions).
retryAttempts == 3

\* env.queue.rateLimit is 100 in env.ts; the model runs the limiter with a
\* small number of slots so that the gate closes within a bounded run.
rateLimit == 1

\* RATE_LIMIT_WINDOW_MS measured in clock ticks of the model (one tick is one
\* step of Tick); 60_000 ms in the source.
RATE_LIMIT_WINDOW_MS == 2

\* How many times the queue hands an active job to a second processor
\* (stalled-job redelivery), in SpecRedelivery.
MaxRedeliveries == 1

\* Calls of send() in a run of SpecHub.
MaxSends == 3

Max(a, b) == IF a >= b THEN a ELSE b

\* const RATE_LIMIT_MAX = Math.max(1, env.queue.rateLimit)
RATE_LIMIT_MAX == Max(1, rateLimit)

Slots == 1 .. (1 + MaxRedeliveries)

None == "none"
NoSocket == "nosocket"

\* OrderLifecycleStatus
Statuses == {"pending", "queued", "routing", "building", "submitted", "confirmed", "failed"}

\* Error messages of the pipeline's failure points (error.message).
Errors == {"E_route", "E_build", "E_send", "E_confirm"}

VARIABLES
  \* ---- intake
  intake,           \* [Orders -> position of the POST handler]
  \* ---- the job in Redis (BullMQ)
  jobState,         \* [Orders -> "none" | "waiting" | "active" | "delayed" | "completed" | "failed"]
  jobData,          \* [Orders -> job.data as stored in Redis]
  attemptsMade,     \* [Orders -> failed attempts so far]
  redeliveries,     \* [Orders -> redeliveries made so far]
  \* ---- processor executions (one Job object each)
  proc,             \* [Orders -> [Slots -> execution record]]
  \* ---- rate limiter (module state of order.worker.ts)
  availableSlots,
  sinceWindow,      \* Date.now() - windowStartedAt, capped at the window length
  routesInWindow,   \* history: passes of acquireRateLimit since the window started
  \* ---- chain
  txCount,          \* [Orders -> transactions submitted to the chain]
  \* ---- WebSocketManager
  sockets,          \* [Orders -> socket | NoSocket]
  pendingMessages,  \* [Orders -> backlog]
  \* ---- the sockets themselves
  readyState,       \* [Sockets -> "NEW" | "OPEN" | "CLOSING" | "CLOSED"]
  boundTo,          \* [Sockets -> orderId captured by the close/error listeners]
  inbox,            \* [Sockets -> frames the subscriber received]
  \* ---- history variables of the hub
  sentLog,          \* [Orders -> every payload handed to send(), in call order]
  backlogAtAttach,  \* [Sockets -> the backlog found by attach()]
  sentAtAttach,     \* [Sockets -> messages already sent for the order when attach() ran]
  attachOrder,      \* the sockets handed to attach(), in call order
  selfClosed,       \* the sockets whose own closing, 'close' or 'error' has happened
  \* ---- history variable of the lifecycle
  emissions,        \* [Orders -> messages emitted by intake and by recordStatus, in order]
  \* ---- order_history
  statusHistory,    \* [Orders -> status_history of the order's row (empty: no row)]
  \* ---- SolanaDexRouter.findBestRoute (one call)
  routePc,          \* "idle" | "quoting" | "done"
  routeOrder,       \* the order handed to findBestRoute
  quoteRequest,     \* the QuoteRequest built for the venues
  getQuote,         \* [venue -> outcome of the venue's getQuote promise]
  guarded,          \* [venue -> outcome of the withTimeout promise around it]
  timer,            \* [venue -> "none" | "armed" | "fired" | "cleared"]
  routeClock,       \* time since the timers were armed, capped at ROUTE_TIMEOUT_MS
  routeResult,      \* what findBestRoute returned or threw
  getQuoteCalls,    \* [venue -> getQuote invocations]
  buildSwapCalls,   \* the buildSwapTx invocations, in call order
  answered,         \* history: the venues in the order their getQuote settled
  \* ---- POST /api/orders/execute, request by request
  request,          \* [Requests -> the handler's position, payload, orderId and reply]
  queueJobs,        \* the jobs added to the orders queue, in order
  idsIssued,        \* generateOrderId calls so far
  \* ---- process shutdown (server.ts)
  closes,           \* [signal -> [closable -> the close promise of that shutdown() call]]
  pool,             \* the module variable `pool` of postgres.ts
  exitCode,         \* the code process.exit was called with
  \* ---- order_history (PostgreSQL) and its callers
  order_history,    \* [order_id -> row], the rows of the table
  dbNow,            \* NOW() / Date.now()
  call,             \* the last write call: its number, operation, arguments and rowCount
  listed,           \* the last OrderHistoryService.list call: its params and response
  walk,             \* a client paging through the history: limit, cursor, orders seen
  \* ---- quoting on the constant-product venue (RaydiumClient)
  env,              \* env.trading of config/env.ts, once the module is loaded
  rpcData,          \* the reserves of the candidate pool, as fetched
  quoted            \* the last computeQuote call: its request, direction and result

vars == <<intake, jobState, jobData, attemptsMade, redeliveries, proc,
          availableSlots, sinceWindow, routesInWindow, txCount,
          sockets, pendingMessages, readyState, boundTo, inbox,
          sentLog, backlogAtAttach, sentAtAttach, attachOrder, selfClosed,
          emissions, statusHistory,
          routePc, routeOrder, quoteRequest, getQuote, guarded, timer, routeClock,
          routeResult, getQuoteCalls, buildSwapCalls, answered,
          request, queueJobs, idsIssued,
          closes, pool, exitCode,
          order_history, dbNow, call, listed, walk,
          env, rpcData, quoted>>

intakeVars == <<intake>>
queueVars == <<jobState, jobData, attemptsMade, redeliveries>>
limiterVars == <<availableSlots, sinceWindow, routesInWindow>>
routerVars == <<routePc, routeOrder, quoteRequest, getQuote, guarded, timer, routeClock,
               routeResult, getQuoteCalls, buildSwapCalls, answered>>
requestVars == <<request, queueJobs, idsIssued>>
shutdownVars == <<closes, pool, exitCode>>
historyVars == <<order_history, dbNow, call, listed, walk>>
quoteVars == <<env, rpcData, quoted>>
otherVars == <<shutdownVars, historyVars, quoteVars>>
sideVars == <<routerVars, requestVars, otherVars>>
workerVars == <<intakeVars, queueVars, proc, limiterVars, txCount, emissions, statusHistory>>
hubVars == <<sockets, pendingMessages, readyState, boundTo, inbox, sentLog, backlogAtAttach,
             sentAtAttach, attachOrder, selfClosed>>

(***************************************************************************)
(* Subscriber hub: WebSocketManager (websocket.manager.ts)                 *)
(***************************************************************************)

\* The hub and its sockets as one value, so that a handler's successive hub
\* calls compose.
Hub == [sockets |-> sockets, pendingMessages |-> pendingMessages,
        readyState |-> readyState, boundTo |-> boundTo, inbox |-> inbox,
        sentLog |-> sentLog, backlogAtAttach |-> backlogAtAttach,
        sentAtAttach |-> sentAtAttach, attachOrder |-> attachOrder,
        selfClosed |-> selfClosed]

SetHub(h) ==
  /\ sockets' = h.sockets
  /\ pendingMessages' = h.pendingMessages
  /\ readyState' = h.readyState
  /\ boundTo' = h.boundTo
  /\ inbox' = h.inbox
  /\ sentLog' = h.sentLog
  /\ backlogAtAttach' = h.backlogAtAttach
  /\ sentAtAttach' = h.sentAtAttach
  /\ attachOrder' = h.attachOrder
  /\ selfClosed' = h.selfClosed

\* OrderStatusMessage {orderId, status, detail, link}
StatusMessage(orderId, status, detail, link) ==
  [orderId |-> orderId, status |-> status, detail |-> detail, link |-> link]

\* `https://explorer.solana.com/tx/${sig}?cluster=devnet`
ExplorerLink(sig) == <<"https://explorer.solana.com/tx/", sig, "?cluster=devnet">>

\* An absent link (undefined).
NoLink == << >>

\* send with the readyState test inverted: buffers for an OPEN socket.
send_BuffersWhenOpen(h, orderId, payload) ==
  LET socket == h.sockets[orderId]
      logged == [h EXCEPT !.sentLog[orderId] = Append(@, payload)]
  IN IF socket = NoSocket \/ h.readyState[socket] = "OPEN"
     THEN [logged EXCEPT !.pendingMessages[orderId] = Append(@, payload)]
     ELSE logged

\* send without the readyState test: socket.send on a socket that is not
\* OPEN fails, the catch logs it and the payload is gone.
send_NoReadyStateTest(h, orderId, payload) ==
  LET socket == h.sockets[orderId]
      logged == [h EXCEPT !.sentLog[orderId] = Append(@, payload)]
  IN IF socket = NoSocket
     THEN [logged EXCEPT !.pendingMessages[orderId] = Append(@, payload)]
     ELSE IF h.readyState[socket] = "OPEN"
          THEN [logged EXCEPT !.inbox[socket] = Append(@, payload)]
          ELSE logged

\* send with one backlog array shared by all orders in place of the array
\* kept per orderId.
send_SharedBacklog(h, orderId, payload) ==
  LET socket == h.sockets[orderId]
      logged == [h EXCEPT !.sentLog[orderId] = Append(@, payload)]
  IN IF socket = NoSocket \/ h.readyState[socket] # "OPEN"
     THEN [logged EXCEPT !.pendingMessages = [o \in Orders |-> Append(@[o], payload)]]
     ELSE [logged EXCEPT !.inbox[socket] = Append(@, payload)]

\* send(orderId, payload): deliver to the registered socket when it is OPEN,
\* buffer otherwise.
send(h, orderId, payload) ==
  LET socket == h.sockets[orderId]
      logged == [h EXCEPT !.sentLog[orderId] = Append(@, payload)]
  IN IF socket = NoSocket \/ h.readyState[socket] # "OPEN"
     THEN [logged EXCEPT !.pendingMessages[orderId] = Append(@, payload)]
     ELSE [logged EXCEPT !.inbox[socket] = Append(@, payload)]

sendStatus(h, orderId, status, detail, link) ==
  send(h, orderId, StatusMessage(orderId, status, detail, link))

\* attach that forgets pendingMessages.delete(orderId) after draining.
attach_KeepsBacklog(h, orderId, socket) ==
  LET backlog == h.pendingMessages[orderId]
      reg == [h EXCEPT !.sockets[orderId] = socket,
                       !.boundTo[socket] = orderId,
                       !.backlogAtAttach[socket] = backlog,
                       !.sentAtAttach[socket] = Len(h.sentLog[orderId]),
                       !.attachOrder = Append(@, socket)]
  IN IF Len(backlog) > 0
     THEN [reg EXCEPT !.inbox[socket] = @ \o backlog]
     ELSE reg

\* attach(orderId, socket): register, bind the close/error listeners, drain
\* the backlog to the socket in order and delete it.
attach(h, orderId, socket) ==
  LET backlog == h.pendingMessages[orderId]
      reg == [h EXCEPT !.sockets[orderId] = socket,
                       !.boundTo[socket] = orderId,
                       !.backlogAtAttach[socket] = backlog,
                       !.sentAtAttach[socket] = Len(h.sentLog[orderId]),
                       !.attachOrder = Append(@, socket)]
  IN IF Len(backlog) > 0
     THEN [reg EXCEPT !.inbox[socket] = @ \o backlog,
                      !.pendingMessages[orderId] = << >>]
     ELSE reg

\* disconnect(orderId): close the registered socket when it is OPEN or
\* CLOSING, and drop the registration.
disconnect(h, orderId) ==
  LET socket == h.sockets[orderId]
  IN IF socket = NoSocket
     THEN h
     ELSE [h EXCEPT !.readyState[socket] = IF @ = "OPEN" THEN "CLOSING" ELSE @,
                    !.sockets[orderId] = NoSocket]

\* OrdersController.attachSocket: attach, then send 'pending'.
attachSocket(h, orderId, socket) ==
  sendStatus(attach(h, orderId, socket), orderId, "pending", None, NoLink)

\* OrdersController.handleWebsocket for a new connection carrying orderId.
HandleWebsocket(s, o) ==
  /\ readyState[s] = "NEW"
  /\ SetHub(attachSocket([Hub EXCEPT !.readyState[s] = "OPEN"], o, s))
  /\ UNCHANGED <<intakeVars, queueVars, proc, limiterVars, txCount, emissions, statusHistory, sideVars>>

\* The peer starts the closing handshake: the socket is no longer OPEN, its
\* 'close' event has not been emitted yet.
SocketClosing(s) ==
  /\ readyState[s] = "OPEN"
  /\ SetHub([Hub EXCEPT !.readyState[s] = "CLOSING", !.selfClosed = @ \cup {s}])
  /\ UNCHANGED <<intakeVars, queueVars, proc, limiterVars, txCount, emissions, statusHistory, sideVars>>

\* socket.on('close', () => this.disconnect(orderId))
SocketClose(s) ==
  /\ readyState[s] \in {"OPEN", "CLOSING"}
  /\ SetHub(disconnect([Hub EXCEPT !.readyState[s] = "CLOSED", !.selfClosed = @ \cup {s}],
                        boundTo[s]))
  /\ UNCHANGED <<intakeVars, queueVars, proc, limiterVars, txCount, emissions, statusHistory, sideVars>>

\* socket.on('error', ...) => this.disconnect(orderId); the socket's own
\* 'close' event follows later.
SocketError(s) ==
  /\ readyState[s] \in {"OPEN", "CLOSING"}
  /\ SetHub(disconnect([Hub EXCEPT !.selfClosed = @ \cup {s}], boundTo[s]))
  /\ UNCHANGED <<intakeVars, queueVars, proc, limiterVars, txCount, emissions, statusHistory, sideVars>>

(***************************************************************************)
(* Intake: OrdersController.execute and OrderService.submitMarketOrder     *)
(***************************************************************************)

\* The job payload built by submitMarketOrder ({...parsed, orderId, receivedAt}):
\* the fields the worker writes start undefined.
NewJobPayload == [emittedStatuses |-> {}, lastTxSignature |-> None, lastError |-> None]

\* execute, up to `await orderService.submitMarketOrder(request.body)`:
\* the payload is validated and the job is added to the queue.
SubmitMarketOrder(o) ==
  /\ intake[o] = "idle"
  /\ intake' = [intake EXCEPT ![o] = "enqueued"]
  /\ jobState' = [jobState EXCEPT ![o] = "waiting"]
  /\ jobData' = [jobData EXCEPT ![o] = NewJobPayload]
  /\ UNCHANGED <<attemptsMade, redeliveries, proc, limiterVars, txCount, hubVars,
                 emissions, statusHistory, sideVars>>

\* execute, after the await: sendStatus(orderId, 'pending') and the 202 reply.
ExecuteRespond(o) ==
  /\ intake[o] = "enqueued"
  /\ intake' = [intake EXCEPT ![o] = "accepted"]
  /\ SetHub(sendStatus(Hub, o, "pending", None, NoLink))
  /\ emissions' = [emissions EXCEPT ![o] = Append(@, StatusMessage(o, "pending", None, NoLink))]
  /\ UNCHANGED <<queueVars, proc, limiterVars, txCount, statusHistory, sideVars>>

(***************************************************************************)
(* Worker: order.worker.ts                                                 *)
(***************************************************************************)

IdleProc == [pc |-> "idle", data |-> NewJobPayload, lock |-> FALSE, err |-> None, sig |-> None]

\* if (detail) ...
Truthy(detail) == detail # None

\* recordStatus without the emitted.has(status) test: every call persists
\* and sends.
recordStatus_NoDedupe(h, data, orderId, status, detail, link) ==
  [data |-> [data EXCEPT !.emittedStatuses = @ \cup {status}],
   hub |-> sendStatus(h, orderId, status, detail, link),
   wrote |-> TRUE,
   sent |-> <<StatusMessage(orderId, status, detail, link)>>]

\* recordStatus whose early return drops an already emitted status even
\* when it carries a detail.
recordStatus_SkipsDuplicates(h, data, orderId, status, detail, link) ==
  IF status \in data.emittedStatuses
  THEN [data |-> data, hub |-> h, wrote |-> FALSE, sent |-> << >>]
  ELSE [data |-> [data EXCEPT !.emittedStatuses = @ \cup {status}],
        hub |-> sendStatus(h, orderId, status, detail, link),
        wrote |-> TRUE,
        sent |-> <<StatusMessage(orderId, status, detail, link)>>]

\* recordStatus(job, status, detail, link) on the Job object whose data is
\* `data`: the new job.data, the hub after the call, whether job.updateData
\* was called, and the message handed to the hub (None when skipped).
recordStatus(h, data, orderId, status, detail, link) ==
  LET msg == StatusMessage(orderId, status, detail, link)
  IN IF status \in data.emittedStatuses
     THEN [data |-> data,
           hub |-> IF Truthy(detail) THEN sendStatus(h, orderId, status, detail, link) ELSE h,
           wrote |-> FALSE,
           sent |-> IF Truthy(detail) THEN <<msg>> ELSE << >>]
     ELSE [data |-> [data EXCEPT !.emittedStatuses = @ \cup {status}],
           hub |-> sendStatus(h, orderId, status, detail, link),
           wrote |-> TRUE,
           sent |-> <<msg>>]

\* What a recordStatus call leaves in the hub and in the lifecycle history.
Emit(o, r) ==
  /\ SetHub(r.hub)
  /\ emissions' = [emissions EXCEPT ![o] = @ \o r.sent]

\* job.updateData(job.data) when recordStatus reached it.
Persist(o, r) ==
  jobData' = IF r.wrote THEN [jobData EXCEPT ![o] = r.data] ELSE jobData

\* Signatures the chain returns for an order's successive transactions.
Signatures == <<"SIG-1", "SIG-2", "SIG-3", "SIG-4", "SIG-5", "SIG-6", "SIG-7", "SIG-8">>

FreeSlots(o) == {k \in Slots : proc[o][k].pc = "idle"}
LowestFree(o) == CHOOSE k \in FreeSlots(o) : \A j \in FreeSlots(o) : k <= j

\* The worker takes the job from the queue (first delivery, or a retry after
\* its backoff) and calls orderProcessor with a Job read from Redis.
Dequeue(o) ==
  /\ jobState[o] \in {"waiting", "delayed"}
  /\ FreeSlots(o) # {}
  /\ jobState' = [jobState EXCEPT ![o] = "active"]
  /\ proc' = [proc EXCEPT ![o][LowestFree(o)] =
                [pc |-> "queued", data |-> jobData[o], lock |-> TRUE, err |-> None, sig |-> None]]
  /\ UNCHANGED <<intakeVars, jobData, attemptsMade, redeliveries, limiterVars, txCount,
                 hubVars, emissions, statusHistory, sideVars>>

\* At-least-once delivery: the queue hands a job that is still being
\* processed to a second orderProcessor call; the first call keeps running
\* without the job's lock.
Redeliver(o) ==
  /\ jobState[o] = "active"
  /\ redeliveries[o] < MaxRedeliveries
  /\ FreeSlots(o) # {}
  /\ \E k \in Slots :
       /\ proc[o][k].pc # "idle"
       /\ proc[o][k].lock
       /\ proc' = [proc EXCEPT ![o][k].lock = FALSE,
                               ![o][LowestFree(o)] =
                                 [pc |-> "queued", data |-> jobData[o], lock |-> TRUE,
                                  err |-> None, sig |-> None]]
  /\ redeliveries' = [redeliveries EXCEPT ![o] = @ + 1]
  /\ UNCHANGED <<intakeVars, jobState, jobData, attemptsMade, limiterVars, txCount,
                 hubVars, emissions, statusHistory, sideVars>>

\* await recordStatus(job, 'queued')
RecordQueued(o, k) ==
  /\ proc[o][k].pc = "queued"
  /\ LET r == recordStatus(Hub, proc[o][k].data, o, "queued", None, NoLink)
     IN /\ proc' = [proc EXCEPT ![o][k].pc = "routing", ![o][k].data = r.data]
        /\ Persist(o, r)
        /\ Emit(o, r)
  /\ UNCHANGED <<intakeVars, jobState, attemptsMade, redeliveries, limiterVars, txCount,
                 statusHistory, sideVars>>

\* await recordStatus(job, 'routing')
RecordRouting(o, k) ==
  /\ proc[o][k].pc = "routing"
  /\ LET r == recordStatus(Hub, proc[o][k].data, o, "routing", None, NoLink)
     IN /\ proc' = [proc EXCEPT ![o][k].pc = "gate", ![o][k].data = r.data]
        /\ Persist(o, r)
        /\ Emit(o, r)
  /\ UNCHANGED <<intakeVars, jobState, attemptsMade, redeliveries, limiterVars, txCount,
                 statusHistory, sideVars>>

\* now - windowStartedAt >= RATE_LIMIT_WINDOW_MS
WindowExpired(elapsed) == elapsed >= RATE_LIMIT_WINDOW_MS

\* availableSlots >= 0: one slot too many.
SlotAvailable_OffByOne(slots) == slots >= 0

\* availableSlots > 0
SlotAvailable(slots) == slots > 0

\* One iteration of acquireRateLimit's loop: reset an expired window, then
\* take a slot and return, or sleep (delay(200)) and stay in the loop.
AcquireRateLimit(o, k) ==
  /\ proc[o][k].pc = "gate"
  /\ LET expired == WindowExpired(sinceWindow)
         slots == IF expired THEN RATE_LIMIT_MAX ELSE availableSlots
         passed == SlotAvailable(slots)
     IN /\ sinceWindow' = IF expired THEN 0 ELSE sinceWindow
        /\ availableSlots' = IF passed THEN slots - 1 ELSE slots
        /\ routesInWindow' = (IF expired THEN 0 ELSE routesInWindow) + (IF passed THEN 1 ELSE 0)
        /\ proc' = [proc EXCEPT ![o][k].pc = IF passed THEN "route" ELSE "gate"]
  /\ UNCHANGED <<intakeVars, queueVars, txCount, hubVars, emissions, statusHistory, sideVars>>

\* The job of execution k, past the gate, ends and the next job this
\* processor is handed reaches acquireRateLimit: a stream of jobs, which
\* share the model's identifier o.
NextJobAtGate(o, k) ==
  /\ proc[o][k].pc = "route"
  /\ proc' = [proc EXCEPT ![o][k].pc = "gate"]
  /\ UNCHANGED <<intakeVars, queueVars, limiterVars, txCount, hubVars, emissions,
                 statusHistory, sideVars>>

\* Wall-clock time passes (Date.now()).
Tick ==
  /\ sinceWindow < RATE_LIMIT_WINDOW_MS
  /\ sinceWindow' = sinceWindow + 1
  /\ UNCHANGED <<intakeVars, queueVars, proc, availableSlots, routesInWindow, txCount,
                 hubVars, emissions, statusHistory, sideVars>>

\* An awaited external call of execution k settles: it resolves and the
\* processor continues at `next`, or it rejects with `error` and control
\* passes to the catch block.
Settle(o, k, at, next, error) ==
  /\ proc[o][k].pc = at
  /\ \E ok \in BOOLEAN :
       proc' = [proc EXCEPT ![o][k].pc = IF ok THEN next ELSE "catch",
                            ![o][k].err = IF ok THEN @ ELSE error]
  /\ UNCHANGED <<intakeVars, queueVars, limiterVars, txCount, hubVars, emissions,
                 statusHistory, sideVars>>

\* const route = await dexRouter.findBestRoute(job.data)
FindBestRoute(o, k) == Settle(o, k, "route", "building", "E_route")

\* await recordStatus(job, 'building')
RecordBuilding(o, k) ==
  /\ proc[o][k].pc = "building"
  /\ LET r == recordStatus(Hub, proc[o][k].data, o, "building", None, NoLink)
     IN /\ proc' = [proc EXCEPT ![o][k].pc = "build", ![o][k].data = r.data]
        /\ Persist(o, r)
        /\ Emit(o, r)
  /\ UNCHANGED <<intakeVars, jobState, attemptsMade, redeliveries, limiterVars, txCount,
                 statusHistory, sideVars>>

\* const built = await route.buildTransaction()
BuildTransaction(o, k) == Settle(o, k, "build", "send", "E_build")

\* sendAndConfirm, connection.sendTransaction rejects.
SendFails(o, k) ==
  /\ proc[o][k].pc = "send"
  /\ proc' = [proc EXCEPT ![o][k].pc = "catch", ![o][k].err = "E_send"]
  /\ UNCHANGED <<intakeVars, queueVars, limiterVars, txCount, hubVars, emissions,
                 statusHistory, sideVars>>

\* onSubmitted without `job.data.lastTxSignature = sig`: the signature is
\* sent to the subscriber and not kept on the job.
SendSubmitted_SignatureNotStored(o, k) ==
  /\ proc[o][k].pc = "send"
  /\ txCount[o] < Len(Signatures)
  /\ LET sig == Signatures[txCount[o] + 1]
         r == recordStatus(Hub, proc[o][k].data, o, "submitted", sig, ExplorerLink(sig))
     IN /\ proc' = [proc EXCEPT ![o][k].pc = "confirm", ![o][k].data = r.data,
                                ![o][k].sig = sig]
        /\ Persist(o, r)
        /\ Emit(o, r)
  /\ txCount' = [txCount EXCEPT ![o] = @ + 1]
  /\ UNCHANGED <<intakeVars, jobState, attemptsMade, redeliveries, limiterVars,
                 statusHistory, sideVars>>

\* sendAndConfirm, connection.sendTransaction resolves with a signature and
\* onSubmitted(sig) runs: job.data.lastTxSignature = sig, then
\* recordStatus(job, 'submitted', sig, link).
SendSubmitted(o, k) ==
  /\ proc[o][k].pc = "send"
  /\ txCount[o] < Len(Signatures)
  /\ LET sig == Signatures[txCount[o] + 1]
         d0 == [proc[o][k].data EXCEPT !.lastTxSignature = sig]
         r == recordStatus(Hub, d0, o, "submitted", sig, ExplorerLink(sig))
     IN /\ proc' = [proc EXCEPT ![o][k].pc = "confirm", ![o][k].data = r.data,
                                ![o][k].sig = sig]
        /\ Persist(o, r)
        /\ Emit(o, r)
  /\ txCount' = [txCount EXCEPT ![o] = @ + 1]
  /\ UNCHANGED <<intakeVars, jobState, attemptsMade, redeliveries, limiterVars,
                 statusHistory, sideVars>>

\* sendAndConfirm, connection.confirmTransaction rejects.
ConfirmFails(o, k) ==
  /\ proc[o][k].pc = "confirm"
  /\ proc' = [proc EXCEPT ![o][k].pc = "catch", ![o][k].err = "E_confirm"]
  /\ UNCHANGED <<intakeVars, queueVars, limiterVars, txCount, hubVars, emissions,
                 statusHistory, sideVars>>

\* sendAndConfirm returns the signature: recordStatus(job, 'confirmed',
\* signature, link) and the processor returns; the queue marks the job
\* completed when this execution still holds the job's lock.
Confirmed(o, k) ==
  /\ proc[o][k].pc = "confirm"
  /\ LET sig == proc[o][k].sig
         r == recordStatus(Hub, proc[o][k].data, o, "confirmed", sig, ExplorerLink(sig))
     IN /\ Persist(o, r)
        /\ Emit(o, r)
  /\ jobState' = IF proc[o][k].lock THEN [jobState EXCEPT ![o] = "completed"] ELSE jobState
  /\ proc' = [proc EXCEPT ![o][k] = IdleProc]
  /\ UNCHANGED <<intakeVars, attemptsMade, redeliveries, limiterVars, txCount,
                 statusHistory, sideVars>>

\* The catch block under a queue that compares attemptsMade <= attempts:
\* one attempt more than configured.
Catch_OneAttemptMore(o, k) ==
  /\ proc[o][k].pc = "catch"
  /\ LET message == proc[o][k].err
         d0 == [proc[o][k].data EXCEPT !.lastError = message]
         r == recordStatus(Hub, d0, o, "failed", message, NoLink)
     IN IF proc[o][k].lock
        THEN /\ attemptsMade' = [attemptsMade EXCEPT ![o] = @ + 1]
             /\ jobState' = [jobState EXCEPT ![o] =
                               IF attemptsMade[o] + 1 <= retryAttempts THEN "delayed" ELSE "failed"]
             /\ jobData' = [jobData EXCEPT ![o] = r.data]
             /\ Emit(o, r)
        ELSE /\ jobData' = [jobData EXCEPT ![o] = d0]
             /\ UNCHANGED <<attemptsMade, jobState, hubVars, emissions>>
  /\ proc' = [proc EXCEPT ![o][k] = IdleProc]
  /\ UNCHANGED <<intakeVars, redeliveries, limiterVars, txCount, statusHistory, sideVars>>

\* The catch block (job.data.lastError = message; job.updateData; throw) and
\* what the queue does with the rejection. An execution holding the job's
\* lock: the attempt is counted, the job is delayed for a retry or, after
\* the last attempt, failed, and the worker's 'failed' listener runs
\* recordStatus(job, 'failed', error.message). An execution that lost the
\* lock cannot move the job: the worker emits 'error', not 'failed'.
Catch(o, k) ==
  /\ proc[o][k].pc = "catch"
  /\ LET message == proc[o][k].err
         d0 == [proc[o][k].data EXCEPT !.lastError = message]
         r == recordStatus(Hub, d0, o, "failed", message, NoLink)
     IN IF proc[o][k].lock
        THEN /\ attemptsMade' = [attemptsMade EXCEPT ![o] = @ + 1]
             /\ jobState' = [jobState EXCEPT ![o] =
                               IF attemptsMade[o] + 1 < retryAttempts THEN "delayed" ELSE "failed"]
             /\ jobData' = [jobData EXCEPT ![o] = r.data]
             /\ Emit(o, r)
        ELSE /\ jobData' = [jobData EXCEPT ![o] = d0]
             /\ UNCHANGED <<attemptsMade, jobState, hubVars, emissions>>
  /\ proc' = [proc EXCEPT ![o][k] = IdleProc]
  /\ UNCHANGED <<intakeVars, redeliveries, limiterVars, txCount, statusHistory, sideVars>>

(***************************************************************************)
(* Router: SolanaDexRouter.findBestRoute (router.ts)                       *)
(***************************************************************************)

coreVars == <<workerVars, hubVars, requestVars, otherVars>>

\* The venues in the order findBestRoute quotes and collects them.
Venues == <<"raydium", "meteora">>
VenueSet == {"raydium", "meteora"}

\* ROUTE_TIMEOUT_MS = 5_000, scaled to clock ticks.
ROUTE_TIMEOUT_MS == 2

\* The largest estimatedOut a venue answers with.
MaxOut == 2

Null == "null"

\* A rejection reason: an Error (with a message) or any other thrown value.
NoReason == [message |-> None, str |-> None]
Reasons == {[message |-> "E_rpc", str |-> "Error: E_rpc"],
            [message |-> None, str |-> "no pool"]}

\* new RoutingError('Quote request timed out', { timeoutMs: ms })
TimedOut == [message |-> "Quote request timed out", str |-> "RoutingError: Quote request timed out"]

\* A promise: not settled, fulfilled with a QuoteResponse, or rejected.
Unsettled == [kind |-> "none", dex |-> None, estimatedOut |-> 0, reason |-> NoReason]
Fulfilled(dex, estimatedOut) ==
  [kind |-> "fulfilled", dex |-> dex, estimatedOut |-> estimatedOut, reason |-> NoReason]
Rejected(reason) == [kind |-> "rejected", dex |-> None, estimatedOut |-> 0, reason |-> reason]

\* What a venue's getQuote can settle with: a quote carrying its own name, or
\* a rejection.
QuoteOutcomes(v) == {Fulfilled(v, n) : n \in 1 .. MaxOut} \cup {Rejected(r) : r \in Reasons}

\* The orders handed to findBestRoute: amount in tenths of a base unit, and
\* whether tokenIn and tokenOut are well-formed public keys.
AmountTenths == {-10, 0, 5, 10, 15}
RouteOrders == [orderId : {"o1"}, amountTenths : AmountTenths, keysValid : BOOLEAN]
NoOrder == [orderId |-> None, amountTenths |-> 0, keysValid |-> FALSE]

\* BigInt(Math.floor(amount))
toLamports(amountTenths) == amountTenths \div 10

NoRequest == [amount |-> 0, sent |-> FALSE]

NoResult == [kind |-> "none", bestDex |-> None, quote |-> Unsettled, message |-> None,
             context |-> [v \in VenueSet |-> Null]]
Thrown(message, context) ==
  [kind |-> "error", bestDex |-> None, quote |-> Unsettled, message |-> message,
   context |-> context]
Plan(quote) ==
  [kind |-> "plan", bestDex |-> quote.dex, quote |-> quote, message |-> None,
   context |-> [v \in VenueSet |-> Null]]

\* A promise settles once: a later resolve or reject is ignored.
SettleOnce(promise, outcome) == IF promise.kind = "none" THEN outcome ELSE promise

\* reason?.message ?? String(reason)
ReasonText_NoFallback(reason) == reason.message

ReasonText(reason) == IF reason.message # None THEN reason.message ELSE reason.str

\* current.estimatedOut < best.estimatedOut: the comparison reversed.
BetterOf_Reversed(best, current) ==
  IF current.estimatedOut < best.estimatedOut THEN current ELSE best

\* current.estimatedOut >= best.estimatedOut: the later quote wins a tie.
BetterOf_LaterWinsTies(best, current) ==
  IF current.estimatedOut >= best.estimatedOut THEN current ELSE best

\* (best, current) => current.estimatedOut > best.estimatedOut ? current : best
BetterOf(best, current) ==
  IF current.estimatedOut > best.estimatedOut THEN current ELSE best

\* successfulQuotes.reduce(...) without an initial value.
RECURSIVE Reduce(_, _)
Reduce(best, rest) ==
  IF rest = << >> THEN best ELSE Reduce(BetterOf(best, Head(rest)), Tail(rest))

\* The fulfilled outcomes, pushed in the order raydium, meteora.
IsFulfilled(outcome) == outcome.kind = "fulfilled"
SuccessfulQuotes(settled) == SelectSeq([i \in DOMAIN Venues |-> settled[Venues[i]]], IsFulfilled)

NoQuotesError(settled) ==
  Thrown("Unable to fetch quotes from Raydium or Meteora",
         [v \in VenueSet |-> IF settled[v].kind = "rejected"
                             THEN ReasonText(settled[v].reason) ELSE Null])

\* Promise.all in place of Promise.allSettled: the first rejection is thrown.
RouteOutcome_FailFast(settled) ==
  IF \E v \in VenueSet : settled[v].kind = "rejected"
  THEN NoQuotesError(settled)
  ELSE Plan(Reduce(Head(SuccessfulQuotes(settled)), Tail(SuccessfulQuotes(settled))))

\* Lines 49-81: what findBestRoute does with the settled outcomes.
RouteOutcome(settled) ==
  IF Len(SuccessfulQuotes(settled)) = 0
  THEN NoQuotesError(settled)
  ELSE Plan(Reduce(Head(SuccessfulQuotes(settled)), Tail(SuccessfulQuotes(settled))))

\* findBestRoute up to the await on Promise.allSettled: the public keys, the
\* amount, the request, and one getQuote per venue under its own timer.
FindBestRouteCall(order) ==
  /\ routePc = "idle"
  /\ routeOrder' = order
  /\ IF ~order.keysValid
     THEN /\ routeResult' = Thrown("Invalid public key input", NoResult.context)
          /\ routePc' = "done"
          /\ UNCHANGED <<quoteRequest, getQuote, guarded, timer, routeClock, getQuoteCalls>>
     ELSE IF order.amountTenths <= 0
     THEN /\ routeResult' = Thrown("Amount must be positive", NoResult.context)
          /\ routePc' = "done"
          /\ UNCHANGED <<quoteRequest, getQuote, guarded, timer, routeClock, getQuoteCalls>>
     ELSE /\ quoteRequest' = [amount |-> toLamports(order.amountTenths), sent |-> TRUE]
          /\ getQuoteCalls' = [v \in VenueSet |-> getQuoteCalls[v] + 1]
          /\ timer' = [v \in VenueSet |-> "armed"]
          /\ routeClock' = 0
          /\ routePc' = "quoting"
          /\ UNCHANGED <<getQuote, guarded, routeResult>>
  /\ UNCHANGED <<coreVars, buildSwapCalls, answered>>

\* A venue's getQuote settles, whenever it does: withTimeout's then/catch
\* pass the outcome on and its finally clears the timer.
GetQuoteSettles(v) ==
  /\ getQuoteCalls[v] > 0
  /\ getQuote[v].kind = "none"
  /\ \E outcome \in QuoteOutcomes(v) :
       /\ getQuote' = [getQuote EXCEPT ![v] = outcome]
       /\ guarded' = [guarded EXCEPT ![v] = SettleOnce(@, outcome)]
  /\ timer' = [timer EXCEPT ![v] = IF @ = "armed" THEN "cleared" ELSE @]
  /\ answered' = Append(answered, v)
  /\ UNCHANGED <<coreVars, routePc, routeOrder, quoteRequest, routeClock, routeResult,
                 getQuoteCalls, buildSwapCalls>>

TimerDue(elapsed) == elapsed >= ROUTE_TIMEOUT_MS

\* withTimeout's setTimeout callback.
TimerFires(v) ==
  /\ timer[v] = "armed"
  /\ TimerDue(routeClock)
  /\ guarded' = [guarded EXCEPT ![v] = SettleOnce(@, Rejected(TimedOut))]
  /\ timer' = [timer EXCEPT ![v] = "fired"]
  /\ UNCHANGED <<coreVars, routePc, routeOrder, quoteRequest, getQuote, routeClock,
                 routeResult, getQuoteCalls, buildSwapCalls, answered>>

\* Time passes while a timer is armed.
RouteTick ==
  /\ \E v \in VenueSet : timer[v] = "armed"
  /\ routeClock < ROUTE_TIMEOUT_MS
  /\ routeClock' = routeClock + 1
  /\ UNCHANGED <<coreVars, routePc, routeOrder, quoteRequest, getQuote, guarded, timer,
                 routeResult, getQuoteCalls, buildSwapCalls, answered>>

\* Promise.allSettled resolved: findBestRoute returns the plan or throws.
Collect ==
  /\ routePc = "quoting"
  /\ \A v \in VenueSet : guarded[v].kind # "none"
  /\ routeResult' = RouteOutcome(guarded)
  /\ routePc' = "done"
  /\ UNCHANGED <<coreVars, routeOrder, quoteRequest, getQuote, guarded, timer, routeClock,
                 getQuoteCalls, buildSwapCalls, answered>>

\* buildTransaction with `client = this.raydium`, whatever the best quote.
PlanBuildTransaction_AlwaysRaydium ==
  /\ routePc = "done"
  /\ routeResult.kind = "plan"
  /\ buildSwapCalls = << >>
  /\ buildSwapCalls' = Append(buildSwapCalls,
                              [venue |-> "raydium", quote |-> routeResult.quote,
                               orderId |-> routeOrder.orderId])
  /\ UNCHANGED <<coreVars, routePc, routeOrder, quoteRequest, getQuote, guarded, timer,
                 routeClock, routeResult, getQuoteCalls, answered>>

\* The worker calls the plan's buildTransaction (order.worker.ts line 61):
\* buildSwapTx on the client picked from bestQuote.dex.
PlanBuildTransaction ==
  /\ routePc = "done"
  /\ routeResult.kind = "plan"
  /\ buildSwapCalls = << >>
  /\ LET client == IF routeResult.quote.dex = "raydium" THEN "raydium" ELSE "meteora"
     IN buildSwapCalls' = Append(buildSwapCalls,
                                 [venue |-> client, quote |-> routeResult.quote,
                                  orderId |-> routeOrder.orderId])
  /\ UNCHANGED <<coreVars, routePc, routeOrder, quoteRequest, getQuote, guarded, timer,
                 routeClock, routeResult, getQuoteCalls, answered>>

(***************************************************************************)
(* POST /api/orders/execute, request by request: OrdersController.execute, *)
(* OrderService.submitMarketOrder, enqueueOrderJob, the error handler      *)
(***************************************************************************)

Requests == {"r1", "r2"}

\* The request bodies: absent fields are None.
Payloads ==
  [tokenIn : {"", "So11"}, tokenOut : {"", "EPjF"}, amount : {-1, 0, 1},
   orderType : {None, "limit", "market"}, orderId : {None, "o1"}]
NoPayload == [tokenIn |-> "", tokenOut |-> "", amount |-> 0, orderType |-> None, orderId |-> None]

\* marketOrderSchema.parse: tokenIn and tokenOut non-empty strings, amount a
\* positive number, orderType "market"; the parsed value is the input.
SchemaAccepts(payload) ==
  /\ payload.tokenIn # ""
  /\ payload.tokenOut # ""
  /\ payload.amount > 0
  /\ payload.orderType = "market"

\* generateOrderId(): nanoid over 33 symbols, 12 long; every call returns an
\* identifier not returned before.
GeneratedIds == <<"o1", "o2">>
generateOrderId(issued) == GeneratedIds[issued + 1]

\* The left operand of || is falsy.
Falsy(x) == x = None \/ x = ""

\* The errors a POST can end with, and error.statusCode (0: none).
NoStatusCode == 0
ZodError == [name |-> "ZodError", statusCode |-> NoStatusCode, message |-> "issues as JSON"]
QueueError == [name |-> "Error", statusCode |-> NoStatusCode, message |-> "Connection is closed."]
NoError == [name |-> None, statusCode |-> NoStatusCode, message |-> None]

\* The errors Fastify's content-type parser raises before the route handler
\* runs: a body that is not JSON, and a body above bodyLimit. Both carry a
\* statusCode and reach the error handler.
InvalidJsonBody ==
  [name |-> "FST_ERR_CTP_INVALID_JSON_BODY", statusCode |-> 400,
   message |-> "Body is not valid JSON but content-type is set to 'application/json'"]
BodyTooLarge ==
  [name |-> "FST_ERR_CTP_BODY_TOO_LARGE", statusCode |-> 413,
   message |-> "Request body is too large"]
ParserErrors == {InvalidJsonBody, BodyTooLarge}

\* An error handler that answers every error as an invalid payload.
ErrorReply_AllInvalid(error) == 400

\* app.setErrorHandler: ZodError -> 400, otherwise error.statusCode ?? 500.
ErrorReply(error) ==
  IF error.name = "ZodError" THEN 400
  ELSE IF error.statusCode # NoStatusCode THEN error.statusCode ELSE 500

\* The body the error handler sends: {message: 'Invalid payload', issues} for a
\* ZodError, {message: error.message ?? 'Unexpected error'} otherwise.
ErrorBody(error) ==
  IF error.name = "ZodError" THEN [message |-> "Invalid payload", issues |-> TRUE]
  ELSE [message |-> IF error.message # None THEN error.message ELSE "Unexpected error",
        issues |-> FALSE]

IdleRequest == [pc |-> "idle", payload |-> NoPayload, orderId |-> None, error |-> NoError,
                reply |-> 0, sent |-> 0]

\* execute -> submitMarketOrder without marketOrderSchema.parse.
ExecuteSubmit_NoValidation(r, payload) ==
  /\ request[r].pc = "idle"
  /\ LET generated == Falsy(payload.orderId)
         orderId == IF generated THEN generateOrderId(idsIssued) ELSE payload.orderId
     IN /\ request' = [request EXCEPT ![r].pc = "enqueueing", ![r].payload = payload,
                                      ![r].orderId = orderId]
        /\ idsIssued' = IF generated THEN idsIssued + 1 ELSE idsIssued
  /\ UNCHANGED <<workerVars, otherVars, hubVars, routerVars, queueJobs>>

\* execute -> submitMarketOrder up to the await on enqueueOrderJob: parse,
\* orderId, job payload, queue.add issued. A payload the schema rejects ends
\* in the error handler.
ExecuteSubmit(r, payload) ==
  /\ request[r].pc = "idle"
  /\ IF ~SchemaAccepts(payload)
     THEN /\ request' = [request EXCEPT ![r].pc = "done", ![r].payload = payload,
                                        ![r].error = ZodError,
                                        ![r].reply = ErrorReply(ZodError)]
          /\ UNCHANGED idsIssued
     ELSE LET generated == Falsy(payload.orderId)
              orderId == IF generated THEN generateOrderId(idsIssued) ELSE payload.orderId
          IN /\ request' = [request EXCEPT ![r].pc = "enqueueing", ![r].payload = payload,
                                           ![r].orderId = orderId]
             /\ idsIssued' = IF generated THEN idsIssued + 1 ELSE idsIssued
  /\ UNCHANGED <<workerVars, otherVars, hubVars, routerVars, queueJobs>>

\* The body of a POST does not parse (or is too large): the route handler is
\* not called and the error handler answers.
BodyRejected(r, error) ==
  /\ request[r].pc = "idle"
  /\ request' = [request EXCEPT ![r].pc = "done", ![r].error = error,
                                ![r].reply = ErrorReply(error)]
  /\ UNCHANGED <<workerVars, otherVars, hubVars, routerVars, queueJobs, idsIssued>>

\* orderQueue.add stored the job.
EnqueueStored(r) ==
  /\ request[r].pc = "enqueueing"
  /\ queueJobs' = Append(queueJobs, [orderId |-> request[r].orderId, by |-> r,
                                     payload |-> request[r].payload])
  /\ request' = [request EXCEPT ![r].pc = "enqueued"]
  /\ UNCHANGED <<workerVars, otherVars, hubVars, routerVars, idsIssued>>

\* orderQueue.add rejected: submitMarketOrder rejects, execute stops at its
\* await and the error handler answers.
EnqueueFails(r) ==
  /\ request[r].pc = "enqueueing"
  /\ request' = [request EXCEPT ![r].pc = "done", ![r].error = QueueError,
                                ![r].reply = ErrorReply(QueueError)]
  /\ UNCHANGED <<workerVars, otherVars, hubVars, routerVars, queueJobs, idsIssued>>

\* execute after the await: sendStatus(orderId, 'pending') and 202.
ExecuteReply(r) ==
  /\ request[r].pc = "enqueued"
  /\ SetHub(sendStatus(Hub, request[r].orderId, "pending", None, NoLink))
  /\ request' = [request EXCEPT ![r].pc = "done", ![r].reply = 202, ![r].sent = @ + 1]
  /\ UNCHANGED <<workerVars, otherVars, routerVars, queueJobs, idsIssued>>

(***************************************************************************)
(* Process shutdown: shutdown(signal) (server.ts), closePostgres            *)
(***************************************************************************)

pipelineVars == <<workerVars, hubVars, routerVars, requestVars>>

\* const signals = ['SIGINT', 'SIGTERM']
Signals == {"SIGINT", "SIGTERM"}

\* Promise.all([orderWorker.shutdown(), app.close(), closePostgres()])
Closables == {"worker", "server", "pool"}

\* process.exit has not been called.
NoExit == -1

\* The promise closePostgres() returns at its first await: `if (!pool)
\* return` settles it at once, otherwise it waits for pool.end().
closePostgres(p) == IF p = "null" THEN "fulfilled" ELSE "pending"

\* What the await on Promise.all does with these three promises: it throws
\* when one is rejected (exit 1), continues when all are fulfilled (exit 0),
\* and waits otherwise.
AwaitAll(promises) ==
  IF \E c \in Closables : promises[c] = "rejected" THEN 1
  ELSE IF \A c \in Closables : promises[c] = "fulfilled" THEN 0
  ELSE NoExit

\* process.on(signal, () => void shutdown(signal)): the three closes are
\* started in the same run, then shutdown awaits Promise.all of them.
Shutdown(sig) ==
  /\ exitCode = NoExit
  /\ closes[sig]["worker"] = "none"
  /\ LET started == [c \in Closables |-> IF c = "pool" THEN closePostgres(pool) ELSE "pending"]
     IN /\ closes' = [closes EXCEPT ![sig] = started]
        /\ exitCode' = AwaitAll(started)
  /\ UNCHANGED <<pipelineVars, pool, historyVars, quoteVars>>

\* A close of the shutdown call for `sig` settles - it resolves, rejects, or
\* turns out never to complete - and what follows in the same run:
\* closePostgres sets pool = null after pool.end() resolved, and a settled
\* Promise.all resumes shutdown, which exits.
CloseSettles(sig, c) ==
  /\ exitCode = NoExit
  /\ closes[sig][c] = "pending"
  /\ \E outcome \in {"fulfilled", "rejected", "never"} :
       /\ closes' = [closes EXCEPT ![sig][c] = outcome]
       /\ pool' = IF c = "pool" /\ outcome = "fulfilled" THEN "null" ELSE pool
       /\ exitCode' = AwaitAll([closes[sig] EXCEPT ![c] = outcome])
  /\ UNCHANGED <<pipelineVars, historyVars, quoteVars>>

(***************************************************************************)
(* Order history: OrderHistoryRepository and OrderHistoryService           *)
(***************************************************************************)

\* The clock runs from 0 to MaxNow; MsTicks clock values make a millisecond
\* (timestamptz columns keep microseconds, ISO strings keep milliseconds).
MaxNow == 3
MsTicks == 2

\* Writes to order_history in a run of SpecHistory.
MaxWrites == 4

\* Math.min(Math.max(params.limit ?? 50, 1), 200), scaled to the model's
\* tables: the largest page and the default page.
MaxLimit == 3
DefaultLimit == 2

Min(a, b) == IF a <= b THEN a ELSE b

\* toIsoString(value) / new Date(...).toISOString(): the instant to the
\* millisecond.
toIsoString(t) == (t \div MsTicks) * MsTicks

\* quote_response of a row that has none.
NoQuoteResponse == [dex |-> Null, estimatedOut |-> 0]

\* An empty string given as a link.
EmptyLink == <<"">>

\* if (explorerLink): neither undefined/null nor ''.
LinkGiven(link) == link # NoLink /\ link # EmptyLink

\* insertOrder as an upsert: ON CONFLICT (order_id) DO UPDATE.
insertOrder_Upserts(t, record) ==
  LET historyEntry == [status |-> record.status,
                       detail |-> IF record.detail = None THEN "Order accepted" ELSE record.detail,
                       link |-> NoLink,
                       recordedAt |-> record.receivedAt]
      row == [status |-> record.status, statusHistory |-> <<historyEntry>>,
              dex |-> Null, txHash |-> Null, executedAmount |-> Null,
              quoteResponse |-> NoQuoteResponse, lastError |-> Null,
              explorerLink |-> NoLink,
              receivedAt |-> record.receivedAt, updatedAt |-> record.receivedAt]
  IN [o \in DOMAIN t \cup {record.orderId} |-> IF o = record.orderId THEN row ELSE t[o]]

\* insertOrder(record): INSERT ... ON CONFLICT (order_id) DO NOTHING. The
\* columns order_type, token_in, token_out and amount, written here and by
\* nothing else, are left out of the rows.
insertOrder(t, record) ==
  LET historyEntry == [status |-> record.status,
                       detail |-> IF record.detail = None THEN "Order accepted" ELSE record.detail,
                       link |-> NoLink,
                       recordedAt |-> record.receivedAt]
      row == [status |-> record.status, statusHistory |-> <<historyEntry>>,
              dex |-> Null, txHash |-> Null, executedAmount |-> Null,
              quoteResponse |-> NoQuoteResponse, lastError |-> Null,
              explorerLink |-> NoLink,
              receivedAt |-> record.receivedAt, updatedAt |-> record.receivedAt]
  IN IF record.orderId \in DOMAIN t
     THEN t
     ELSE [o \in DOMAIN t \cup {record.orderId} |-> IF o = record.orderId THEN row ELSE t[o]]

\* OrderHistoryService.recordNewOrder(order)
recordNewOrder(t, order) ==
  insertOrder(t, [orderId |-> order.orderId, receivedAt |-> order.receivedAt,
                  status |-> "pending", detail |-> "Order accepted"])

\* appendStatus as an upsert: a missing row is created.
appendStatus_CreatesRow(t, params, at) ==
  LET historyEntry == [status |-> params.status,
                       detail |-> IF params.detail = None THEN Null ELSE params.detail,
                       link |-> params.link,
                       recordedAt |-> toIsoString(at)]
      explorerLink == IF params.explorerLink # NoLink THEN params.explorerLink ELSE params.link
  IN IF params.orderId \notin DOMAIN t
     THEN insertOrder(t, [orderId |-> params.orderId, receivedAt |-> toIsoString(at),
                          status |-> params.status, detail |-> params.detail])
     ELSE [t EXCEPT ![params.orderId] =
             [@ EXCEPT !.status = params.status,
                       !.statusHistory = Append(@, historyEntry),
                       !.updatedAt = at,
                       !.explorerLink = IF LinkGiven(explorerLink) THEN explorerLink ELSE @,
                       !.txHash = IF Falsy(params.txHash) THEN @ ELSE params.txHash,
                       !.dex = IF Falsy(params.dex) THEN @ ELSE params.dex,
                       !.executedAmount = IF Falsy(params.executedAmount) THEN @
                                          ELSE params.executedAmount,
                       !.lastError = IF Falsy(params.lastError) THEN @ ELSE params.lastError]]

\* appendStatus under which an absent side field erases the column.
appendStatus_ErasesAbsent(t, params, at) ==
  LET historyEntry == [status |-> params.status,
                       detail |-> IF params.detail = None THEN Null ELSE params.detail,
                       link |-> params.link,
                       recordedAt |-> toIsoString(at)]
      explorerLink == IF params.explorerLink # NoLink THEN params.explorerLink ELSE params.link
  IN IF params.orderId \notin DOMAIN t
     THEN t
     ELSE [t EXCEPT ![params.orderId] =
             [@ EXCEPT !.status = params.status,
                       !.statusHistory = Append(@, historyEntry),
                       !.updatedAt = at,
                       !.explorerLink = explorerLink,
                       !.txHash = IF Falsy(params.txHash) THEN Null ELSE params.txHash,
                       !.dex = IF Falsy(params.dex) THEN Null ELSE params.dex,
                       !.executedAmount = IF Falsy(params.executedAmount) THEN Null
                                          ELSE params.executedAmount,
                       !.lastError = IF Falsy(params.lastError) THEN Null ELSE params.lastError]]

\* appendStatus that appends the entry and leaves the status column as it is.
appendStatus_StatusNotSet(t, params, at) ==
  LET historyEntry == [status |-> params.status,
                       detail |-> IF params.detail = None THEN Null ELSE params.detail,
                       link |-> params.link,
                       recordedAt |-> toIsoString(at)]
  IN IF params.orderId \notin DOMAIN t
     THEN t
     ELSE [t EXCEPT ![params.orderId] =
             [@ EXCEPT !.statusHistory = Append(@, historyEntry),
                       !.updatedAt = at]]

\* appendStatus(params): one UPDATE ... WHERE order_id = $1 whose SET list
\* holds status, status_history, updated_at and the side fields given; a
\* missing row matches nothing (rowCount 0, a warning).
appendStatus(t, params, at) ==
  LET historyEntry == [status |-> params.status,
                       detail |-> IF params.detail = None THEN Null ELSE params.detail,
                       link |-> params.link,
                       recordedAt |-> toIsoString(at)]
      explorerLink == IF params.explorerLink # NoLink THEN params.explorerLink ELSE params.link
  IN IF params.orderId \notin DOMAIN t
     THEN t
     ELSE [t EXCEPT ![params.orderId] =
             [@ EXCEPT !.status = params.status,
                       !.statusHistory = Append(@, historyEntry),
                       !.updatedAt = at,
                       !.explorerLink = IF LinkGiven(explorerLink) THEN explorerLink ELSE @,
                       !.txHash = IF Falsy(params.txHash) THEN @ ELSE params.txHash,
                       !.dex = IF Falsy(params.dex) THEN @ ELSE params.dex,
                       !.executedAmount = IF Falsy(params.executedAmount) THEN @
                                          ELSE params.executedAmount,
                       !.lastError = IF Falsy(params.lastError) THEN @ ELSE params.lastError]]

\* recordRoutingDecision that also records the decision as a status.
recordRoutingDecision_Appends(t, orderId, quote, at) ==
  IF orderId \notin DOMAIN t
  THEN t
  ELSE [t EXCEPT ![orderId] =
          [@ EXCEPT !.dex = quote.dex,
                    !.quoteResponse = [dex |-> quote.dex, estimatedOut |-> quote.estimatedOut],
                    !.statusHistory = Append(@, [status |-> "routing", detail |-> quote.dex,
                                                 link |-> NoLink, recordedAt |-> toIsoString(at)]),
                    !.updatedAt = at]]

\* recordRoutingDecision(orderId, quote): UPDATE order_history SET dex,
\* quote_response, updated_at = NOW() WHERE order_id = $1.
recordRoutingDecision(t, orderId, quote, at) ==
  IF orderId \notin DOMAIN t
  THEN t
  ELSE [t EXCEPT ![orderId] =
          [@ EXCEPT !.dex = quote.dex,
                    !.quoteResponse = [dex |-> quote.dex, estimatedOut |-> quote.estimatedOut],
                    !.updatedAt = at]]

\* The pages listQuery can return: the `limit` first rows, by updated_at
\* descending, of those before the cursor. Rows with equal updated_at come
\* in any order.
Pages(t, limit, cursor, Before(_, _)) ==
  LET matching == {o \in DOMAIN t : cursor = << >> \/ Before(t[o].updatedAt, cursor[1])}
      n == Min(limit, Cardinality(matching))
  IN {ids \in [1 .. n -> matching] :
        /\ \A i, j \in 1 .. n : i < j => ids[i] # ids[j] /\ t[ids[i]].updatedAt >= t[ids[j]].updatedAt
        /\ \A o \in matching :
             (\A i \in 1 .. n : ids[i] # o) => t[o].updatedAt <= t[ids[n]].updatedAt}

\* updated_at < $2::timestamptz
StrictlyBefore(a, b) == a < b

\* updated_at <= $2::timestamptz
NotAfter(a, b) == a <= b

\* listOrders whose query keeps the rows at the cursor.
listOrders_InclusiveCursor(t, limit, cursor) ==
  {[rows |-> [i \in DOMAIN ids |->
                [orderId |-> ids[i], updatedAt |-> toIsoString(t[ids[i]].updatedAt)]],
    nextCursor |-> IF Len(ids) = limit
                   THEN <<toIsoString(t[ids[Len(ids)]].updatedAt)>>
                   ELSE << >>] : ids \in Pages(t, limit, cursor, NotAfter)}

\* listOrders({limit, cursor}): the rows of listQuery with their timestamps
\* as ISO strings, and nextCursor = the last row's updatedAt when the page is
\* full, null otherwise (an absent cursor or nextCursor is << >>).
listOrders(t, limit, cursor) ==
  {[rows |-> [i \in DOMAIN ids |->
                [orderId |-> ids[i], updatedAt |-> toIsoString(t[ids[i]].updatedAt)]],
    nextCursor |-> IF Len(ids) = limit
                   THEN <<toIsoString(t[ids[Len(ids)]].updatedAt)>>
                   ELSE << >>] : ids \in Pages(t, limit, cursor, StrictlyBefore)}

\* Math.min(Math.max(params.limit ?? 50, 1), 200)
normalizedLimit(limit) ==
  Min(Max(IF limit = << >> THEN DefaultLimit ELSE limit[1], 1), MaxLimit)

\* params.cursor && !Number.isNaN(Date.parse(params.cursor))
\*   ? new Date(params.cursor).toISOString() : null
cursorIso(cursor) ==
  IF cursor # << >> /\ cursor[1].valid THEN <<toIsoString(cursor[1].at)>> ELSE << >>

\* OrderHistoryService.list(params): the responses it can give.
list(t, params) ==
  {[data |-> r.rows,
    limit |-> normalizedLimit(params.limit),
    nextCursor |-> r.nextCursor,
    hasMore |-> r.nextCursor # << >>] :
     r \in listOrders(t, normalizedLimit(params.limit), cursorIso(params.cursor))}

\* What the callers pass.
ListLimits == {<< >>} \cup {<<n>> : n \in 0 .. MaxLimit + 1}
ListCursors ==
  {<< >>, <<[valid |-> FALSE, at |-> 0]>>} \cup {<<[valid |-> TRUE, at |-> t]>> : t \in 0 .. MaxNow}

NoAppend == [orderId |-> None, status |-> None, detail |-> None, link |-> NoLink,
             explorerLink |-> NoLink, txHash |-> None, dex |-> None,
             executedAmount |-> None, lastError |-> None]

AppendParams(o) ==
  {[NoAppend EXCEPT !.orderId = o, !.status = "routing"],
   [NoAppend EXCEPT !.orderId = o, !.status = "submitted", !.detail = "SIG-1",
                    !.link = ExplorerLink("SIG-1"), !.explorerLink = ExplorerLink("SIG-1"),
                    !.txHash = "SIG-1"],
   [NoAppend EXCEPT !.orderId = o, !.status = "failed", !.detail = "E_send",
                    !.lastError = "E_send"],
   [NoAppend EXCEPT !.orderId = o, !.status = "confirmed", !.dex = "raydium",
                    !.executedAmount = "1", !.txHash = "", !.explorerLink = EmptyLink],
   [NoAppend EXCEPT !.orderId = o, !.status = "confirmed", !.link = ExplorerLink("SIG-2"),
                    !.explorerLink = EmptyLink, !.lastError = ""]}

NoCall == [n |-> 0, op |-> None, orderId |-> None, params |-> NoAppend,
           quote |-> Unsettled, receivedAt |-> 0, at |-> 0, rowCount |-> 0,
           warned |-> FALSE, before |-> << >>]

NoListing == [params |-> [limit |-> << >>, cursor |-> << >>],
              response |-> [data |-> << >>, limit |-> 0, nextCursor |-> << >>, hasMore |-> FALSE]]

NoWalk == [active |-> FALSE, limit |-> 0, cursor |-> << >>, seen |-> << >>, done |-> FALSE]

restVars == <<intakeVars, queueVars, proc, limiterVars, txCount, emissions, hubVars,
              routerVars, requestVars, shutdownVars, quoteVars>>

\* The table after a statement, and the status_history column as the
\* pipeline's properties read it.
SetTable(t) ==
  /\ order_history' = t
  /\ statusHistory' = [o \in Orders |-> IF o \in DOMAIN t THEN t[o].statusHistory ELSE << >>]

\* The writes of a run come before its reads.
MayWrite == call.n < MaxWrites /\ listed = NoListing

\* orderHistoryService.recordNewOrder(order), order.receivedAt being the
\* ISO time at which the order was received.
RecordNewOrder(o) ==
  /\ MayWrite
  /\ \E r \in {toIsoString(t) : t \in 0 .. dbNow} :
       /\ SetTable(recordNewOrder(order_history, [orderId |-> o, receivedAt |-> r]))
       /\ call' = [NoCall EXCEPT !.n = call.n + 1, !.op = "insertOrder", !.orderId = o,
                                 !.receivedAt = r, !.at = dbNow, !.before = order_history,
                                 !.rowCount = IF o \in DOMAIN order_history THEN 0 ELSE 1]
  /\ UNCHANGED <<restVars, dbNow, listed, walk>>

\* orderHistoryRepository.appendStatus(params)
AppendStatus(o, params) ==
  /\ MayWrite
  /\ SetTable(appendStatus(order_history, params, dbNow))
  /\ call' = [NoCall EXCEPT !.n = call.n + 1, !.op = "appendStatus", !.orderId = o,
                            !.params = params, !.at = dbNow, !.before = order_history,
                            !.rowCount = IF o \in DOMAIN order_history THEN 1 ELSE 0,
                            !.warned = o \notin DOMAIN order_history]
  /\ UNCHANGED <<restVars, dbNow, listed, walk>>

\* orderHistoryService.recordRoutingDecision(orderId, quote)
RecordRoutingDecision(o) ==
  /\ MayWrite
  /\ \E quote \in {Fulfilled("raydium", 1), Fulfilled("meteora", 2)} :
       /\ SetTable(recordRoutingDecision(order_history, o, quote, dbNow))
       /\ call' = [NoCall EXCEPT !.n = call.n + 1, !.op = "recordRoutingDecision",
                                 !.orderId = o, !.quote = quote, !.at = dbNow,
                                 !.before = order_history,
                                 !.rowCount = IF o \in DOMAIN order_history THEN 1 ELSE 0]
  /\ UNCHANGED <<restVars, dbNow, listed, walk>>

\* Time passes.
HistoryTick ==
  /\ dbNow < MaxNow
  /\ dbNow' = dbNow + 1
  /\ UNCHANGED <<restVars, statusHistory, order_history, call, listed, walk>>

\* orderHistoryService.list(params), any params: the first read of a run.
List(params) ==
  /\ listed = NoListing
  /\ \E response \in list(order_history, params) :
       listed' = [params |-> params, response |-> response]
  /\ UNCHANGED <<restVars, statusHistory, order_history, dbNow, call, walk>>

\* A client pages through the history with limit = k: the first call has no
\* cursor, every further call passes the nextCursor it was given, until
\* nextCursor is null.
WalkNext(k) ==
  /\ ~walk.done
  /\ k = IF walk.active THEN walk.limit ELSE k
  /\ LET params == [limit |-> <<k>>,
                    cursor |-> IF walk.cursor = << >> THEN << >>
                               ELSE <<[valid |-> TRUE, at |-> walk.cursor[1]]>>]
     IN \E response \in list(order_history, params) :
          /\ listed' = [params |-> params, response |-> response]
          /\ walk' = [active |-> TRUE, limit |-> k, cursor |-> response.nextCursor,
                      seen |-> walk.seen \o response.data,
                      done |-> response.nextCursor = << >>]
  /\ UNCHANGED <<restVars, statusHistory, order_history, dbNow, call>>

\* ---------------------------------------------------------------------
\* Quoting on the constant-product venue: env.trading.slippage,
\* DEFAULT_SLIPPAGE_BPS and RaydiumClient.computeQuote.
\* Amounts are integers (bigint, BN); the configured slippage is a real
\* number, held here in units of 1/100000 so that Math.floor has work to do.

\* The values SLIPPAGE is given in the environment: negative, zero, below one
\* basis point, the default 0.01, 0.5, 1 and 1.5.
SlippageSettings == {-1000, 0, 5, 1000, 50000, 100000, 150000}
QuoteAmounts == {0, 1, 2, 3, 4000}
PoolReserves == {0, 1, 3, 5000}

NotLoaded == [loaded |-> FALSE, slippage |-> 0]
NoQuote == [returned |-> FALSE, estimatedOut |-> 0, minOut |-> 0]
NotQuoted == [request |-> [amount |-> 0, slippageBps |-> 0], baseIn |-> TRUE,
              result |-> NoQuote]

\* Math.floor(x * 10_000) of a real number x held in units of 1/100000.
FloorBps(slippage) == slippage \div 10

DEFAULT_SLIPPAGE_BPS(slippage) == Max(1, FloorBps(slippage))

\* The division of bigint and of BN: the quotient is truncated toward zero.
BigIntDiv(a, b) ==
  IF (a >= 0) = (b > 0) THEN (IF a >= 0 THEN a ELSE -a) \div (IF b > 0 THEN b ELSE -b)
  ELSE -((IF a >= 0 THEN a ELSE -a) \div (IF b > 0 THEN b ELSE -b))

\* computeQuote for a candidate whose pool info and mints are present and
\* whose direction resolved to baseIn. A division by zero throws inside
\* getQuote's Promise.all: no quote is returned.
computeQuote(candidate, baseIn, req) ==
  LET inputAmount == req.amount
      reserveIn == IF baseIn THEN candidate.baseReserve ELSE candidate.quoteReserve
      reserveOut == IF baseIn THEN candidate.quoteReserve ELSE candidate.baseReserve
      inputAfterFee == BigIntDiv(inputAmount * 9975, 10000)
      numerator == inputAfterFee * reserveOut
      denominator == reserveIn + inputAfterFee
      estimatedOut == BigIntDiv(numerator, denominator)
      minOut == BigIntDiv(estimatedOut * (10000 - req.slippageBps), 10000)
  IN IF inputAmount = 0 THEN NoQuote
     ELSE IF denominator = 0 THEN NoQuote
     ELSE IF estimatedOut <= 0 THEN NoQuote
     ELSE [returned |-> TRUE, estimatedOut |-> estimatedOut, minOut |-> minOut]

\* config/env.ts is loaded: trading.slippage = Number(process.env.SLIPPAGE ?? 0.01).
LoadEnv(slippage) ==
  /\ ~env.loaded
  /\ env' = [loaded |-> TRUE, slippage |-> slippage]
  /\ UNCHANGED <<pipelineVars, shutdownVars, historyVars, rpcData, quoted>>

\* The pool's reserves are fetched from the chain.
FetchRpcData(base, quote) ==
  /\ rpcData' = [baseReserve |-> base, quoteReserve |-> quote]
  /\ UNCHANGED <<pipelineVars, shutdownVars, historyVars, env, quoted>>

\* findBestRoute builds the QuoteRequest with DEFAULT_SLIPPAGE_BPS and the
\* venue computes its quote on the pool.
ComputeQuote(amount, baseIn) ==
  /\ env.loaded
  /\ LET req == [amount |-> amount, slippageBps |-> DEFAULT_SLIPPAGE_BPS(env.slippage)]
     IN quoted' = [request |-> req, baseIn |-> baseIn,
                   result |-> computeQuote(rpcData, baseIn, req)]
  /\ UNCHANGED <<pipelineVars, shutdownVars, historyVars, env, rpcData>>


(***************************************************************************)
(* Specifications                                                          *)
(***************************************************************************)

Init ==
  /\ intake = [o \in Orders |-> "idle"]
  /\ jobState = [o \in Orders |-> "none"]
  /\ jobData = [o \in Orders |-> NewJobPayload]
  /\ attemptsMade = [o \in Orders |-> 0]
  /\ redeliveries = [o \in Orders |-> 0]
  /\ proc = [o \in Orders |-> [k \in Slots |-> IdleProc]]
  /\ availableSlots = RATE_LIMIT_MAX
  /\ sinceWindow = 0
  /\ routesInWindow = 0
  /\ txCount = [o \in Orders |-> 0]
  /\ sockets = [o \in Orders |-> NoSocket]
  /\ pendingMessages = [o \in Orders |-> << >>]
  /\ readyState = [s \in Sockets |-> "NEW"]
  /\ boundTo = [s \in Sockets |-> None]
  /\ inbox = [s \in Sockets |-> << >>]
  /\ sentLog = [o \in Orders |-> << >>]
  /\ backlogAtAttach = [s \in Sockets |-> << >>]
  /\ sentAtAttach = [s \in Sockets |-> 0]
  /\ attachOrder = << >>
  /\ selfClosed = {}
  /\ emissions = [o \in Orders |-> << >>]
  /\ statusHistory = [o \in Orders |-> << >>]
  /\ routePc = "idle"
  /\ routeOrder = NoOrder
  /\ quoteRequest = NoRequest
  /\ getQuote = [v \in VenueSet |-> Unsettled]
  /\ guarded = [v \in VenueSet |-> Unsettled]
  /\ timer = [v \in VenueSet |-> "none"]
  /\ routeClock = 0
  /\ routeResult = NoResult
  /\ getQuoteCalls = [v \in VenueSet |-> 0]
  /\ buildSwapCalls = << >>
  /\ answered = << >>
  /\ request = [r \in Requests |-> IdleRequest]
  /\ queueJobs = << >>
  /\ idsIssued = 0
  /\ closes = [sig \in Signals |-> [c \in Closables |-> "none"]]
  /\ pool = "open"
  /\ exitCode = NoExit
  /\ order_history = << >>
  /\ dbNow = 0
  /\ call = NoCall
  /\ listed = NoListing
  /\ walk = NoWalk
  /\ env = NotLoaded
  /\ rpcData = [baseReserve |-> 0, quoteReserve |-> 0]
  /\ quoted = NotQuoted

IntakeStep(os) == \E o \in os : SubmitMarketOrder(o) \/ ExecuteRespond(o)

WorkerStep ==
  \E o \in Orders, k \in Slots :
    \/ RecordQueued(o, k)
    \/ RecordRouting(o, k)
    \/ AcquireRateLimit(o, k)
    \/ FindBestRoute(o, k)
    \/ RecordBuilding(o, k)
    \/ BuildTransaction(o, k)
    \/ SendFails(o, k)
    \/ SendSubmitted(o, k)
    \/ ConfirmFails(o, k)
    \/ Confirmed(o, k)
    \/ Catch(o, k)

SocketStep(ss, os) ==
  \E s \in ss :
    \/ \E o \in os : HandleWebsocket(s, o)
    \/ SocketClosing(s)
    \/ SocketClose(s)
    \/ SocketError(s)

\* The pipeline of one order, with the queue's sequential retries, and one
\* client connection subscribing to it at any moment.
Next ==
  \/ IntakeStep({"o1"})
  \/ \E o \in Orders : Dequeue(o)
  \/ WorkerStep
  \/ Tick
  \/ SocketStep({"s1"}, {"o1"})

Spec == Init /\ [][Next]_vars

\* The same pipeline with no subscriber (every message is buffered by the
\* hub), under the fairness the runtime gives: time advances, awaited calls
\* settle, the event loop runs every ready continuation, and the queue
\* delivers waiting and delayed jobs.
NextUnsubscribed ==
  \/ IntakeStep({"o1"})
  \/ \E o \in Orders : Dequeue(o)
  \/ WorkerStep
  \/ Tick

FairSpec ==
  /\ Init
  /\ [][NextUnsubscribed]_vars
  /\ WF_vars(Tick)
  /\ WF_vars(WorkerStep)
  /\ WF_vars(\E o \in Orders : Dequeue(o))
  /\ WF_vars(IntakeStep({"o1"}))

\* First delivery of a job (no retry is followed).
FirstDelivery(o) == jobState[o] = "waiting" /\ Dequeue(o)

\* One order whose job the queue delivers and, while it is being processed,
\* redelivers: two orderProcessor calls for the same job run concurrently.
NextRedelivery ==
  \/ IntakeStep({"o1"})
  \/ \E o \in Orders : FirstDelivery(o)
  \/ \E o \in Orders : Redeliver(o)
  \/ WorkerStep
  \/ Tick

SpecRedelivery == Init /\ [][NextRedelivery]_vars

\* Two orders whose jobs are processed concurrently and meet at the
\* rate-limit gate.
NextGate ==
  \/ IntakeStep(Orders)
  \/ \E o \in Orders : FirstDelivery(o)
  \/ WorkerStep
  \/ Tick

SpecGate == Init /\ [][NextGate]_vars

\* Two processors at the rate-limit gate, each handed job after job. The
\* event loop runs every continuation that stays ready, the delay(200) timer
\* of a waiting processor fires again and again, and time advances.
GateStep(o, k) ==
  \/ RecordQueued(o, k)
  \/ RecordRouting(o, k)
  \/ AcquireRateLimit(o, k)
  \/ NextJobAtGate(o, k)

NextGateStream ==
  \/ IntakeStep(Orders)
  \/ \E o \in Orders : FirstDelivery(o)
  \/ \E o \in Orders, k \in Slots : GateStep(o, k)
  \/ Tick

SpecGateStream == Init /\ [][NextGateStream]_vars

FairSpecGateStream ==
  /\ SpecGateStream
  /\ WF_vars(Tick)
  /\ WF_vars(IntakeStep(Orders))
  /\ \A o \in Orders :
       /\ WF_vars(FirstDelivery(o))
       /\ \A k \in Slots : WF_vars(GateStep(o, k))

\* Two orders processed concurrently within one rate-limit window; a client
\* connection subscribes to the first, closes or fails at any moment, and
\* the second has no subscriber.
NextFrame ==
  \/ IntakeStep(Orders)
  \/ \E o \in Orders : FirstDelivery(o)
  \/ WorkerStep
  \/ SocketStep({"s1"}, {"o1"})

SpecFrame == Init /\ [][NextFrame]_vars

\* The subscriber hub alone, driven through its interface: any caller sends
\* status messages for any order, clients attach, close and fail.
Details == <<"d1", "d2", "d3", "d4", "d5", "d6">>

TotalSent == Len(sentLog["o1"]) + Len(sentLog["o2"])

HubSendStatus(o) ==
  /\ TotalSent < MaxSends
  /\ TotalSent < Len(Details)
  /\ \E status \in {"queued", "confirmed"} :
       SetHub(sendStatus(Hub, o, status, Details[TotalSent + 1], NoLink))
  /\ UNCHANGED <<intakeVars, queueVars, proc, limiterVars, txCount, emissions, statusHistory, sideVars>>

HubAttach(s, o) ==
  /\ readyState[s] = "NEW"
  /\ SetHub(attach([Hub EXCEPT !.readyState[s] = "OPEN"], o, s))
  /\ UNCHANGED <<intakeVars, queueVars, proc, limiterVars, txCount, emissions, statusHistory, sideVars>>

NextHub ==
  \/ \E o \in Orders : HubSendStatus(o)
  \/ \E s \in Sockets, o \in Orders : HubAttach(s, o)
  \/ \E s \in Sockets : SocketClosing(s)
  \/ \E s \in Sockets : SocketClose(s)
  \/ \E s \in Sockets : SocketError(s)

SpecHub == Init /\ [][NextHub]_vars

\* One findBestRoute call against two venues that answer, fail, or stay
\* silent past the deadline.
NextRouter ==
  \/ \E order \in RouteOrders : FindBestRouteCall(order)
  \/ \E v \in VenueSet : GetQuoteSettles(v)
  \/ \E v \in VenueSet : TimerFires(v)
  \/ RouteTick
  \/ Collect
  \/ PlanBuildTransaction

SpecRouter == Init /\ [][NextRouter]_vars

\* Timers fire and continuations run; a venue need never answer.
FairSpecRouter ==
  /\ SpecRouter
  /\ WF_vars(RouteTick)
  /\ WF_vars(\E v \in VenueSet : TimerFires(v))
  /\ WF_vars(Collect)

\* Two POST requests with any bodies, each enqueue succeeding or failing.
NextExecute ==
  \/ \E r \in Requests, payload \in Payloads : ExecuteSubmit(r, payload)
  \/ \E r \in Requests : EnqueueStored(r)
  \/ \E r \in Requests : EnqueueFails(r)
  \/ \E r \in Requests : ExecuteReply(r)

SpecExecute == Init /\ [][NextExecute]_vars

\* The same requests, some of whose bodies the content-type parser rejects.
NextSurface ==
  \/ NextExecute
  \/ \E r \in Requests, error \in ParserErrors : BodyRejected(r, error)

SpecSurface == Init /\ [][NextSurface]_vars

\* The process is sent SIGINT and SIGTERM, each at most once, and the closes
\* settle in any order.
NextShutdown ==
  \/ \E sig \in Signals : Shutdown(sig)
  \/ \E sig \in Signals, c \in Closables : CloseSettles(sig, c)

SpecShutdown == Init /\ [][NextShutdown]_vars

\* Whatever is pending settles one way or another.
FairSpecShutdown ==
  /\ SpecShutdown
  /\ WF_vars(\E sig \in Signals, c \in Closables : CloseSettles(sig, c))

\* The history of two orders written at any time: inserts, status appends
\* and routing decisions.
NextHistory ==
  \/ \E o \in Orders : RecordNewOrder(o)
  \/ \E o \in Orders : \E params \in AppendParams(o) : AppendStatus(o, params)
  \/ \E o \in Orders : RecordRoutingDecision(o)
  \/ HistoryTick

SpecHistory == Init /\ [][NextHistory]_vars

\* Orders are inserted and their rows updated, and clients list and page
\* through the history.
NextList ==
  \/ \E o \in Orders : RecordNewOrder(o)
  \/ \E o \in Orders : AppendStatus(o, [NoAppend EXCEPT !.orderId = o, !.status = "routing"])
  \/ HistoryTick
  \/ \E limit \in ListLimits, cursor \in ListCursors : List([limit |-> limit, cursor |-> cursor])
  \/ \E k \in 1 .. MaxLimit : WalkNext(k)

SpecList == Init /\ [][NextList]_vars

\* Quoting alone: the configuration is loaded, the reserves move, quotes are
\* computed.
NextQuote ==
  \/ \E slippage \in SlippageSettings : LoadEnv(slippage)
  \/ \E base \in PoolReserves, quote \in PoolReserves : FetchRpcData(base, quote)
  \/ \E amount \in QuoteAmounts, baseIn \in BOOLEAN : ComputeQuote(amount, baseIn)

SpecQuote == Init /\ [][NextQuote]_vars

(***************************************************************************)
(* Properties                                                              *)
(***************************************************************************)

Range(seq) == {seq[i] : i \in DOMAIN seq}

Count(seq, status) == Cardinality({i \in DOMAIN seq : seq[i].status = status})

Occurrences(seq, m) == Cardinality({i \in DOMAIN seq : seq[i] = m})

IsPrefix(a, b) == Len(a) <= Len(b) /\ SubSeq(b, 1, Len(a)) = a

RECURSIVE IsSubsequence(_, _)
IsSubsequence(a, b) ==
  IF a = << >> THEN TRUE
  ELSE IF b = << >> THEN FALSE
  ELSE IF Head(a) = Head(b) THEN IsSubsequence(Tail(a), Tail(b))
  ELSE IsSubsequence(a, Tail(b))

StatusesOf(seq) == [i \in DOMAIN seq |-> seq[i].status]

\* a strictly precedes b in
\* pending < queued < routing < building < (submitted < confirmed | failed)
Rank(status) ==
  CASE status = "pending" -> 0
    [] status = "queued" -> 1
    [] status = "routing" -> 2
    [] status = "building" -> 3
    [] status = "submitted" -> 4
    [] status = "confirmed" -> 5
    [] status = "failed" -> 4

Precedes(a, b) ==
  /\ Rank(a) < Rank(b)
  /\ ~(a = "failed" /\ b = "confirmed")

OnceOnly == {"pending", "queued", "routing", "building"}

\* C1: the statuses emitted for an order (intake's pending, the worker's and
\* the 'failed' listener's recordStatus emissions) never appear against the
\* partial order pending < queued < routing < building < (submitted <
\* confirmed | failed), and pending, queued, routing, building appear at
\* most once.
C1_LifecycleOrder ==
  \A o \in Orders :
    LET e == emissions[o]
    IN /\ \A i, j \in DOMAIN e : i < j => ~Precedes(e[j].status, e[i].status)
       /\ \A status \in OnceOnly : Count(e, status) <= 1

\* C2: failed is terminal and excludes confirmed: nothing but failed is
\* emitted after a failed, and no order has both failed and confirmed.
C2_FailedTerminal ==
  \A o \in Orders :
    LET e == emissions[o]
    IN /\ \A i, j \in DOMAIN e : (i < j /\ e[i].status = "failed") => e[j].status = "failed"
       /\ ~(Count(e, "failed") > 0 /\ Count(e, "confirmed") > 0)

C4_RedeliveryNoDuplicates ==
  \A o \in Orders :
    \A status \in {"queued", "routing", "building", "submitted", "confirmed"} :
      Count(emissions[o], status) <= 1

\* The terminal messages (confirmed, failed) handed to the hub for an order.
IsTerminalMessage(m) == m.status \in {"confirmed", "failed"}
TerminalsSent(o) == SelectSeq(sentLog[o], IsTerminalMessage)

\* The job is finished and the last terminal message handed to the hub tells
\* how: confirmed for a completed job, failed with the last error's message
\* for a failed one.
Terminated(o) ==
  /\ jobState[o] \in {"completed", "failed"}
  /\ TerminalsSent(o) # << >>
  /\ LET last == TerminalsSent(o)[Len(TerminalsSent(o))]
     IN IF jobState[o] = "completed"
        THEN last.status = "confirmed"
        ELSE last.status = "failed" /\ last.detail = jobData[o].lastError

C6_RateLimit == routesInWindow <= RATE_LIMIT_MAX

\* C6 witness: the window's slots are used up and another job's processor
\* is waiting at the gate.
C6_Witness ==
  /\ routesInWindow = RATE_LIMIT_MAX
  /\ availableSlots = 0
  /\ \E o1, o2 \in Orders :
       /\ o1 # o2
       /\ \E k \in Slots : proc[o1][k].pc = "gate"
       /\ \E k \in Slots : proc[o2][k].pc \in {"route", "building", "build", "send", "confirm"}

\* C7: intake's pending is handed to the hub before the worker emits queued.
C7_PendingBeforeQueued ==
  \A o \in Orders :
    LET e == emissions[o]
    IN \A i \in DOMAIN e :
         e[i].status = "queued" => \E j \in DOMAIN e : j < i /\ e[j].status = "pending"

\* C8: the statuses handed to the hub for an order are contained, in the
\* same order, in the order's statusHistory.
C8_HistoryExtendsHub ==
  \A o \in Orders : IsSubsequence(StatusesOf(sentLog[o]), StatusesOf(statusHistory[o]))

SixStatuses == <<"pending", "queued", "routing", "building", "submitted", "confirmed">>

\* C9: a subscriber that attaches after intake completed and the worker ran
\* the order to confirmed (the six messages were in the backlog it found)
\* has received exactly those six messages, in order, and nothing else.
C9_LateSubscriber ==
  \A s \in Sockets :
    StatusesOf(backlogAtAttach[s]) = SixStatuses => StatusesOf(inbox[s]) = SixStatuses

\* C10: attach delivers the backlog it finds to the subscriber, in the order
\* of the sends, and clears it: the backlog found is the head of what the
\* subscriber received, what a subscriber received and what is buffered keep
\* the order of the sends, and no message sent is both delivered and still
\* buffered, or delivered twice.
C10_BacklogDeliveredOnce ==
  /\ \A s \in Sockets : IsPrefix(backlogAtAttach[s], inbox[s])
  /\ \A s \in Sockets : boundTo[s] # None => IsSubsequence(inbox[s], sentLog[boundTo[s]])
  /\ \A o \in Orders :
       /\ IsSubsequence(pendingMessages[o], sentLog[o])
       /\ \A m \in Range(sentLog[o]) :
            Occurrences(pendingMessages[o], m)
              + Cardinality({s \in Sockets : Occurrences(inbox[s], m) > 0}) = 1
  /\ \A s \in Sockets : \A m \in Range(inbox[s]) : Occurrences(inbox[s], m) = 1

\* C10 witness: a subscriber was handed a backlog of two messages on attach,
\* and a later subscriber of the same order was handed the one message that
\* was buffered after the first one closed.
C10_Witness ==
  \E s1, s2 \in Sockets, o \in Orders :
    /\ s1 # s2
    /\ boundTo[s1] = o /\ boundTo[s2] = o
    /\ Len(backlogAtAttach[s1]) = 2
    /\ Len(backlogAtAttach[s2]) = 1
    /\ sockets[o] = s2
    /\ pendingMessages[o] = << >>

\* C11: a subscriber that attached to an order before anything was sent for
\* it, and is still the order's open registered subscriber, has received
\* every message sent for the order, once each and in the order of the
\* sends, whatever was sent for other orders in between.
C11_SubscriberReceivesAll ==
  \A o \in Orders, s \in Sockets :
    (sockets[o] = s /\ readyState[s] = "OPEN" /\ sentAtAttach[s] = 0)
      => inbox[s] = sentLog[o]

\* C11 witness: the subscriber of one order has received two messages, and
\* a message for the other order was sent between them.
C11_Witness ==
  \E o, other \in Orders, s \in Sockets :
    /\ o # other
    /\ sockets[o] = s /\ readyState[s] = "OPEN" /\ sentAtAttach[s] = 0
    /\ Len(inbox[s]) = 2
    /\ inbox[s][1].detail = Details[1]
    /\ sentLog[other] # << >> /\ sentLog[other][1].detail = Details[2]
    /\ inbox[s][2].detail = Details[3]

IsSuffix(a, b) == Len(a) <= Len(b) /\ SubSeq(b, Len(b) - Len(a) + 1, Len(b)) = a

\* The position in sentLog of the first message attach() handed to s.
FirstReceived(s) == sentAtAttach[s] - Len(backlogAtAttach[s]) + 1

\* C12: nothing sent for an order is dropped when its subscriber goes away:
\* what is buffered is the tail of what was sent, and every subscriber of the
\* order received, in the order of the sends, an unbroken stretch of it that
\* starts with the backlog it found; the stretches and the backlog make up
\* everything sent.
C12_NoDropAfterDisconnect ==
  \A o \in Orders :
    /\ IsSuffix(pendingMessages[o], sentLog[o])
    /\ \A s \in Sockets :
         boundTo[s] = o =>
           /\ FirstReceived(s) + Len(inbox[s]) - 1 <= Len(sentLog[o])
           /\ inbox[s] = SubSeq(sentLog[o], FirstReceived(s), FirstReceived(s) + Len(inbox[s]) - 1)
    /\ \A i \in DOMAIN sentLog[o] :
         \/ i > Len(sentLog[o]) - Len(pendingMessages[o])
         \/ \E s \in Sockets :
              boundTo[s] = o /\ FirstReceived(s) <= i /\ i < FirstReceived(s) + Len(inbox[s])

\* C12 witness: a subscriber received a message and went away, two messages
\* were sent and buffered, and the next subscriber of the order was handed
\* both on attach.
C12_Witness ==
  \E o \in Orders, s1, s2 \in Sockets :
    /\ s1 # s2 /\ boundTo[s1] = o /\ boundTo[s2] = o
    /\ readyState[s1] = "CLOSED" /\ Len(inbox[s1]) = 1
    /\ sockets[o] = s2
    /\ sentAtAttach[s2] = 3 /\ Len(backlogAtAttach[s2]) = 2
    /\ inbox[s2] = SubSeq(sentLog[o], 2, 3)

\* The sockets attached for order o, in the order of the attach calls.
AttachedFor(o) ==
  LET For(s) == boundTo[s] = o
  IN SelectSeq(attachOrder, For)

\* C13: an order has at most one registered subscriber, and once a second
\* attach for the order has replaced the first, the socket attached last -
\* as long as it has not itself closed or failed - is the registered
\* subscriber, has received everything sent for the order since its attach,
\* and no socket attached earlier has received any of it.
C13_SecondAttachReplaces ==
  \A o \in Orders :
    /\ Cardinality({s \in Sockets : sockets[o] = s}) <= 1
    /\ Len(AttachedFor(o)) >= 2 =>
         LET s2 == AttachedFor(o)[Len(AttachedFor(o))]
         IN s2 \notin selfClosed =>
              /\ sockets[o] = s2
              /\ inbox[s2] = SubSeq(sentLog[o], FirstReceived(s2), Len(sentLog[o]))
              /\ \A s1 \in Sockets :
                   (s1 # s2 /\ boundTo[s1] = o) =>
                     FirstReceived(s1) + Len(inbox[s1]) - 1 <= sentAtAttach[s2]

\* A venue's quote is admitted: its guarded getQuote fulfilled.
Admitted(v) == guarded[v].kind = "fulfilled"

\* C14: when findBestRoute has settled and some venue's quote was admitted,
\* it returned a plan whose quote is an admitted quote, of the venue named in
\* bestDex, with an estimatedOut not below that of any admitted quote.
C14_BestQuoteChosen ==
  (routePc = "done" /\ \E v \in VenueSet : Admitted(v)) =>
    /\ routeResult.kind = "plan"
    /\ \E w \in VenueSet :
         /\ Admitted(w)
         /\ routeResult.quote = guarded[w]
         /\ routeResult.bestDex = w
    /\ \A v \in VenueSet :
         Admitted(v) => guarded[v].estimatedOut <= routeResult.quote.estimatedOut

\* C14 witness: only one venue's quote was admitted, with the smallest
\* estimatedOut there is, and it is the plan's quote.
C14_Witness ==
  \E w, v \in VenueSet :
    /\ routePc = "done"
    /\ Admitted(w) /\ guarded[v].kind = "rejected"
    /\ guarded[w].estimatedOut = 1
    /\ routeResult.kind = "plan" /\ routeResult.bestDex = w

\* C15: when every venue's quote failed or timed out, findBestRoute threw
\* 'Unable to fetch quotes from Raydium or Meteora' with one reason per
\* venue (the rejection's message, or the rejection as a string when it has
\* none), returned no plan, and no buildSwapTx was invoked.
C15_NoQuotesError ==
  (routePc = "done" /\ \A v \in VenueSet : guarded[v].kind = "rejected") =>
    /\ routeResult.kind = "error"
    /\ routeResult.message = "Unable to fetch quotes from Raydium or Meteora"
    /\ \A v \in VenueSet :
         /\ routeResult.context[v] \notin {Null, None}
         /\ routeResult.context[v] = IF guarded[v].reason.message # None
                                     THEN guarded[v].reason.message
                                     ELSE guarded[v].reason.str
    /\ buildSwapCalls = << >>

\* C15 witness: one venue timed out, the other rejected with a value that
\* has no message, and findBestRoute threw.
C15_Witness ==
  \E v, w \in VenueSet :
    /\ routePc = "done" /\ routeResult.kind = "error"
    /\ timer[v] = "fired" /\ guarded[v].reason = TimedOut
    /\ guarded[w].kind = "rejected" /\ guarded[w].reason.message = None

\* C16: a timer fires only at the deadline and makes its venue a failed one
\* for good, whatever the venue answers later; findBestRoute then settles
\* with the other venue's quote when that was admitted and with the
\* no-quotes error otherwise; its result never changes afterwards; and a
\* call that quotes always settles.
C16_TimeoutBounded ==
  /\ [](\A v \in VenueSet :
          timer[v] = "fired" =>
            /\ routeClock = ROUTE_TIMEOUT_MS
            /\ guarded[v] = Rejected(TimedOut))
  /\ [](\A v, w \in VenueSet :
          (routePc = "done" /\ v # w /\ timer[v] = "fired") =>
            IF Admitted(w)
            THEN routeResult = Plan(guarded[w])
            ELSE /\ routeResult.kind = "error"
                 /\ routeResult.message = "Unable to fetch quotes from Raydium or Meteora")
  /\ [][routePc = "done" => routeResult' = routeResult]_vars
  /\ (routePc = "quoting" ~> routePc = "done")

\* C16 witness: a venue answered after its timer fired, with a better quote
\* than the other venue's, and the plan is the other venue's.
C16_Witness ==
  \E v, w \in VenueSet :
    /\ v # w /\ routePc = "done"
    /\ timer[v] = "fired" /\ getQuote[v].kind = "fulfilled"
    /\ Admitted(w)
    /\ getQuote[v].estimatedOut > guarded[w].estimatedOut
    /\ routeResult.kind = "plan" /\ routeResult.bestDex = w

\* The jobs a request added to the queue.
JobsBy(r) == {i \in DOMAIN queueJobs : queueJobs[i].by = r}

\* The bodies the claim lists as invalid.
InvalidPayload(payload) ==
  \/ payload.tokenIn = ""
  \/ payload.tokenOut = ""
  \/ payload.amount <= 0
  \/ payload.orderType = None
  \/ payload.orderType # "market"

\* C17: a request whose body has an empty tokenIn, an empty tokenOut, an
\* amount <= 0, no orderType or an orderType other than "market" ended with
\* the validation error (answered 400), was given no orderId, and added no
\* job to the queue.
C17_InvalidNotEnqueued ==
  \A r \in Requests :
    (request[r].pc # "idle" /\ InvalidPayload(request[r].payload)) =>
      /\ request[r].pc = "done"
      /\ request[r].error = ZodError
      /\ request[r].reply = 400
      /\ request[r].orderId = None
      /\ JobsBy(r) = {}

\* C17 witness: a request whose only fault is orderType "limit" was refused
\* while the queue holds the other request's job, and only that one.
C17_Witness ==
  \E r, other \in Requests :
    /\ r # other
    /\ request[r].pc = "done" /\ request[r].reply = 400
    /\ request[r].payload.tokenIn # "" /\ request[r].payload.tokenOut # ""
    /\ request[r].payload.amount > 0 /\ request[r].payload.orderType = "limit"
    /\ Len(queueJobs) = 1 /\ queueJobs[1].by = other

\* C18: a request whose enqueue failed was answered 500, its handler handed
\* no status message to the hub and it left no job; and the hub was handed
\* exactly one message for every request answered 202.
C18_EnqueueFailure ==
  /\ \A r \in Requests :
       request[r].error = QueueError =>
         /\ request[r].reply = 500
         /\ request[r].sent = 0
         /\ JobsBy(r) = {}
  /\ Len(sentLog["o1"]) + Len(sentLog["o2"])
       = Cardinality({r \in Requests : request[r].reply = 202})

\* C18 witness: one request's enqueue failed and nothing at all was handed
\* to the hub for its orderId, while the other request was accepted.
C18_Witness ==
  \E r, other \in Requests :
    /\ request[r].error = QueueError /\ request[r].reply = 500
    /\ request[r].orderId # None
    /\ sentLog[request[r].orderId] = << >>
    /\ pendingMessages[request[r].orderId] = << >>
    /\ request[other].reply = 202

\* C19: an order's history row, with first entry pending / "Order accepted",
\* exists from the moment its job is in the queue.
C19_HistoryRowBeforeEnqueue ==
  \A o \in Orders :
    jobState[o] # "none" =>
      /\ Len(statusHistory[o]) >= 1
      /\ statusHistory[o][1].status = "pending"
      /\ statusHistory[o][1].detail = "Order accepted"

\* C20: no two jobs in the queue carry the same orderId.
C20_UniqueOrderIds ==
  \A i, j \in DOMAIN queueJobs :
    i # j => queueJobs[i].orderId # queueJobs[j].orderId

\* buildSwapTx, `throw new Error('Requested input mint does not match Raydium
\* pool')`: the error BuildTransaction rejects with.
InvalidDirection == "E_build"

\* The queue settles the attempt of execution k of order o in this step.
AttemptSettles(o, k) ==
  /\ proc[o][k].pc = "catch"
  /\ proc[o][k].lock
  /\ proc'[o][k].pc = "idle"

ShutdownRequested(sig) == closes[sig]["worker"] # "none"

\* C23: a shutdown signal starts the three closes together; the process
\* exits with 0 only when the worker, the server and the pool were all
\* closed, and with 1 when a close failed; and once a signal was handled the
\* process eventually exits, also when a close never completes.
C23_ShutdownExits ==
  /\ [](\A sig \in Signals :
          ShutdownRequested(sig) => \A c \in Closables : closes[sig][c] # "none")
  /\ [](exitCode = 0 => \E sig \in Signals : \A c \in Closables : closes[sig][c] = "fulfilled")
  /\ []((\E sig \in Signals, c \in Closables : closes[sig][c] = "rejected") => exitCode = 1)
  /\ \A sig \in Signals : ShutdownRequested(sig) ~> (exitCode # NoExit)

\* C24: a client that paged through the history with limit = k, from no
\* cursor and passing each nextCursor on until it was null, has seen every
\* order of the table exactly once, in updatedAt-descending order.
C24_PaginationComplete ==
  walk.done =>
    /\ {walk.seen[i].orderId : i \in DOMAIN walk.seen} = DOMAIN order_history
    /\ Len(walk.seen) = Cardinality(DOMAIN order_history)
    /\ \A i, j \in DOMAIN walk.seen : i < j => walk.seen[i].updatedAt >= walk.seen[j].updatedAt

\* The limit the claim says a list call works with: 1..MaxLimit, the
\* default when none is given.
ClampedLimit(limit) ==
  IF limit = << >> THEN DefaultLimit
  ELSE IF limit[1] < 1 THEN 1
  ELSE IF limit[1] > MaxLimit THEN MaxLimit
  ELSE limit[1]

\* C25: for every list call, nextCursor is the updatedAt of the last
\* returned row when as many rows were returned as the clamped limit and
\* null otherwise, hasMore is true exactly when nextCursor is not null, and
\* under a cursor that denotes an instant every returned row has an
\* updatedAt - as returned and as stored - strictly before it.
C25_NextCursor ==
  listed.response.limit > 0 =>
    LET params == listed.params
        response == listed.response
        limit == ClampedLimit(params.limit)
        rows == response.data
    IN /\ response.limit = limit
       /\ Len(rows) <= limit
       /\ response.nextCursor = IF Len(rows) = limit THEN <<rows[Len(rows)].updatedAt>> ELSE << >>
       /\ response.hasMore = (response.nextCursor # << >>)
       /\ (params.cursor # << >> /\ params.cursor[1].valid) =>
            \A i \in DOMAIN rows :
              /\ rows[i].updatedAt < params.cursor[1].at
              /\ order_history[rows[i].orderId].updatedAt < params.cursor[1].at

\* C25 witness: a call with limit 0 (clamped to 1) and a cursor returned a
\* full page of one row and a nextCursor, out of two rows of which one is
\* not before the cursor.
C25_Witness ==
  /\ listed.params.limit = <<0>>
  /\ listed.params.cursor # << >> /\ listed.params.cursor[1].valid
  /\ Len(listed.response.data) = 1
  /\ listed.response.hasMore
  /\ Cardinality(DOMAIN order_history) = 2
  /\ \E o \in DOMAIN order_history : order_history[o].updatedAt >= listed.params.cursor[1].at

\* C26: after an insert the table is the table before it plus, when the
\* order had no row, a row whose status is pending, whose statusHistory is
\* the single entry pending / "Order accepted" and whose receivedAt and
\* updatedAt are the received timestamp; every row that existed, the
\* order's own included, is as it was.
C26_InsertIdempotent ==
  call.op = "insertOrder" =>
    LET o == call.orderId
    IN /\ DOMAIN order_history = DOMAIN call.before \cup {o}
       /\ \A existing \in DOMAIN call.before : order_history[existing] = call.before[existing]
       /\ o \notin DOMAIN call.before =>
            /\ order_history[o].status = "pending"
            /\ order_history[o].statusHistory =
                 <<[status |-> "pending", detail |-> "Order accepted", link |-> NoLink,
                    recordedAt |-> call.receivedAt]>>
            /\ order_history[o].receivedAt = call.receivedAt
            /\ order_history[o].updatedAt = call.receivedAt

\* C26 witness: an order was inserted again, with another received
\* timestamp, after a status had been appended to its row at a later time.
C26_Witness ==
  /\ call.op = "insertOrder" /\ call.rowCount = 0
  /\ LET row == order_history[call.orderId]
     IN /\ Len(row.statusHistory) = 2
        /\ row.status = "submitted"
        /\ row.updatedAt > row.receivedAt
        /\ call.receivedAt # row.receivedAt

\* C27: an appendStatus for an order that has no row matched nothing and
\* ended with the warning: no row was created and the table is as it was.
C27_AppendMissingRow ==
  (call.op = "appendStatus" /\ call.orderId \notin DOMAIN call.before) =>
    /\ call.rowCount = 0
    /\ call.warned
    /\ order_history = call.before

\* C27 witness: a status with side fields was appended for an order without
\* a row while the other order has a row with two entries.
C27_Witness ==
  \E o \in Orders :
    /\ call.op = "appendStatus" /\ call.warned
    /\ call.params.status = "submitted"
    /\ call.orderId # o
    /\ DOMAIN order_history = {o}
    /\ Len(order_history[o].statusHistory) = 2

\* The side fields appendStatus takes as strings.
SideFields == {"dex", "txHash", "executedAmount", "lastError"}

\* C28: an appendStatus on an existing row, in one step, set the row's
\* status, appended exactly one entry (with that status) to its
\* statusHistory and kept the earlier entries, and set updatedAt to the time
\* of the call, not before the old value; a side field differs from its old
\* value only where a non-empty value was given, and then is that value;
\* receivedAt and quoteResponse, every other row and the set of rows are as
\* they were.
C28_AppendStatusFrame ==
  (call.op = "appendStatus" /\ call.orderId \in DOMAIN call.before) =>
    LET o == call.orderId
        old == call.before[o]
        new == order_history[o]
        params == call.params
    IN /\ DOMAIN order_history = DOMAIN call.before
       /\ \A other \in DOMAIN call.before : other # o => order_history[other] = call.before[other]
       /\ new.status = params.status
       /\ Len(new.statusHistory) = Len(old.statusHistory) + 1
       /\ SubSeq(new.statusHistory, 1, Len(old.statusHistory)) = old.statusHistory
       /\ new.statusHistory[Len(new.statusHistory)].status = params.status
       /\ new.updatedAt = call.at /\ new.updatedAt >= old.updatedAt
       /\ new.receivedAt = old.receivedAt /\ new.quoteResponse = old.quoteResponse
       /\ \A f \in SideFields : new[f] # old[f] => ~Falsy(params[f]) /\ new[f] = params[f]
       /\ new.explorerLink # old.explorerLink =>
            /\ LinkGiven(params.explorerLink) \/ LinkGiven(params.link)
            /\ new.explorerLink \in {params.explorerLink, params.link}

\* C28 witness: confirmed was appended with a venue and an executed amount
\* but an empty txHash and an empty link, to a row that had a txHash and a
\* link from submitted: both are kept, and the other order's row exists.
C28_Witness ==
  \E o, other \in Orders :
    /\ o # other /\ DOMAIN order_history = {o, other}
    /\ call.op = "appendStatus" /\ call.orderId = o
    /\ call.params.txHash = "" /\ call.params.explorerLink = EmptyLink
    /\ order_history[o].status = "confirmed"
    /\ Len(order_history[o].statusHistory) = 3
    /\ order_history[o].txHash = "SIG-1"
    /\ order_history[o].explorerLink = ExplorerLink("SIG-1")
    /\ order_history[o].dex = "raydium"

\* The last write was recordRoutingDecision for an order that had a row.
RoutingDecisionRecorded ==
  call.op = "recordRoutingDecision" /\ call.orderId \in DOMAIN call.before

\* C29 as stated: recordRoutingDecision changed nothing but venue and
\* quoteResponse of the order's row.
C29_OnlyVenueAndQuote ==
  RoutingDecisionRecorded =>
    LET o == call.orderId
    IN /\ [order_history[o] EXCEPT !.dex = call.before[o].dex,
                                   !.quoteResponse = call.before[o].quoteResponse]
            = call.before[o]
       /\ \A other \in DOMAIN call.before : other # o => order_history[other] = call.before[other]

\* C29, amended: recordRoutingDecision set venue and quoteResponse of the
\* order's row from the quote and its updatedAt to the time of the call, and
\* changed nothing else: statusHistory, status, txHash, executedAmount,
\* lastError, explorerLink and receivedAt are as they were, and so are every
\* other row and the set of rows (an order without a row gets none).
C29_RoutingDecisionFrame ==
  call.op = "recordRoutingDecision" =>
    /\ DOMAIN order_history = DOMAIN call.before
    /\ \A other \in DOMAIN call.before :
         other # call.orderId => order_history[other] = call.before[other]
    /\ RoutingDecisionRecorded =>
         LET old == call.before[call.orderId]
             new == order_history[call.orderId]
         IN /\ new.dex = call.quote.dex
            /\ new.quoteResponse = [dex |-> call.quote.dex,
                                    estimatedOut |-> call.quote.estimatedOut]
            /\ new.updatedAt = call.at
            /\ [new EXCEPT !.dex = old.dex, !.quoteResponse = old.quoteResponse,
                           !.updatedAt = old.updatedAt] = old

\* C29 witness: a routing decision for meteora was recorded, later than the
\* row's last update, on a row that has two statusHistory entries and a
\* txHash.
C29_Witness ==
  /\ RoutingDecisionRecorded
  /\ LET old == call.before[call.orderId]
         new == order_history[call.orderId]
     IN /\ new.dex = "meteora" /\ new.quoteResponse.estimatedOut = 2
        /\ Len(new.statusHistory) = 2 /\ new.txHash = "SIG-1"
        /\ new.updatedAt > old.updatedAt

\* A quote was returned by the last computeQuote call.
QuoteReturned == quoted.result.returned

\* C30: every quote the constant-product venue returns has estimatedOut > 0,
\* minOut = floor(estimatedOut * (10000 - slippageBps) / 10000) and
\* 0 <= minOut <= estimatedOut, whatever slippageBps the router put in the
\* request.
C30_QuoteArithmetic ==
  QuoteReturned =>
    LET q == quoted.result
    IN /\ q.estimatedOut > 0
       /\ q.minOut = (q.estimatedOut * (10000 - quoted.request.slippageBps)) \div 10000
       /\ 0 <= q.minOut
       /\ q.minOut <= q.estimatedOut

\* The slippageBps of every request is in [1, 10000].
SlippageBpsInRange ==
  QuoteReturned => quoted.request.slippageBps \in 1 .. 10000

\* The quote arithmetic of C30 for the requests whose slippageBps is in
\* [1, 10000].
QuoteArithmeticInRange ==
  (QuoteReturned /\ quoted.request.slippageBps \in 1 .. 10000) =>
    LET q == quoted.result
    IN /\ q.estimatedOut > 0
       /\ q.minOut = (q.estimatedOut * (10000 - quoted.request.slippageBps)) \div 10000
       /\ 0 <= q.minOut
       /\ q.minOut <= q.estimatedOut

\* The emission at position i of order o is `confirmed`.
ConfirmedAt(o, i) == emissions[o][i].status = "confirmed"

\* The emission at position j is the `submitted` of the attempt that emitted
\* the `confirmed` at position i: it comes before it, and no attempt ended
\* (failed) or submitted again in between.
SubmittedOfSameAttempt(o, j, i) ==
  /\ j < i
  /\ emissions[o][j].status = "submitted"
  /\ \A m \in (j + 1) .. (i - 1) : emissions[o][m].status \notin {"submitted", "failed"}

\* C31: every confirmed emission of an order comes after the submitted
\* emission of the same attempt and carries its signature and its explorer
\* link, and the lastTxSignature stored on the job is that signature.
C31_ConfirmedCarriesSubmittedSignature ==
  \A o \in Orders :
    \A i \in DOMAIN emissions[o] :
      ConfirmedAt(o, i) =>
        /\ \E j \in DOMAIN emissions[o] :
             /\ SubmittedOfSameAttempt(o, j, i)
             /\ emissions[o][j].detail = emissions[o][i].detail
             /\ emissions[o][j].link = emissions[o][i].link
        /\ emissions[o][i].link = ExplorerLink(emissions[o][i].detail)
        /\ jobData[o].lastTxSignature = emissions[o][i].detail

\* C31 witness: a retry was confirmed: an earlier attempt submitted SIG-1 and
\* failed, the confirmed emission carries SIG-2, the job is completed.
C31_Witness ==
  \E o \in Orders :
    /\ jobState[o] = "completed"
    /\ \E i, j \in DOMAIN emissions[o] :
         /\ j < i
         /\ emissions[o][j].status = "submitted" /\ emissions[o][j].detail = "SIG-1"
         /\ ConfirmedAt(o, i) /\ emissions[o][i].detail = "SIG-2"
    /\ jobData[o].lastTxSignature = "SIG-2"

\* The request ended in the error handler.
AnsweredByErrorHandler(r) == request[r].pc = "done" /\ request[r].error # NoError

\* C32: a request that ended with a validation error was answered 400 with
\* message "Invalid payload" and an issues list, a request that ended with any
\* other error was answered 500 with a message, and a request answered 202
\* was accepted by intake and left its job in the queue.
C32_ErrorMapping ==
  \A r \in Requests :
    /\ AnsweredByErrorHandler(r) =>
         IF request[r].error = ZodError
         THEN /\ request[r].reply = 400
              /\ ErrorBody(request[r].error) = [message |-> "Invalid payload", issues |-> TRUE]
         ELSE /\ request[r].reply = 500
              /\ ErrorBody(request[r].error).message # None
    /\ request[r].reply = 202 =>
         /\ SchemaAccepts(request[r].payload)
         /\ \E i \in DOMAIN queueJobs :
              queueJobs[i].by = r /\ queueJobs[i].orderId = request[r].orderId

\* The mapping of C32 for the errors raised inside the route handler (the
\* schema's ZodError and the queue's error).
ErrorMappingOfHandlerErrors ==
  \A r \in Requests :
    /\ (AnsweredByErrorHandler(r) /\ request[r].error \notin ParserErrors) =>
         IF request[r].error = ZodError
         THEN /\ request[r].reply = 400
              /\ ErrorBody(request[r].error) = [message |-> "Invalid payload", issues |-> TRUE]
         ELSE /\ request[r].reply = 500
              /\ ErrorBody(request[r].error).message # None
    /\ request[r].reply = 202 =>
         /\ SchemaAccepts(request[r].payload)
         /\ \E i \in DOMAIN queueJobs :
              queueJobs[i].by = r /\ queueJobs[i].orderId = request[r].orderId

\* Both venues' quotes were admitted, with equal estimatedOut.
TiedQuotes ==
  /\ \A v \in VenueSet : guarded[v].kind = "fulfilled"
  /\ guarded["raydium"].estimatedOut = guarded["meteora"].estimatedOut

\* C33: when the two admitted quotes have equal estimatedOut, findBestRoute
\* returns the quote of the venue registered first, raydium, in whatever
\* order the venues answered.
C33_TieGoesToFirstVenue ==
  (routePc = "done" /\ quoteRequest.sent /\ TiedQuotes) =>
    /\ routeResult.kind = "plan"
    /\ routeResult.bestDex = "raydium"
    /\ routeResult.quote = guarded["raydium"]

\* C33 witness: meteora answered first, raydium second with the same
\* estimatedOut, and findBestRoute returned raydium's quote.
C33_Witness ==
  /\ routePc = "done"
  /\ TiedQuotes
  /\ answered = <<"meteora", "raydium">>
  /\ routeResult.bestDex = "raydium"

\* C34: findBestRoute calls getQuote once per venue and buildSwapTx never;
\* the plan's buildTransaction calls buildSwapTx on the venue of the returned
\* quote only, an admitted quote no other admitted quote exceeds, with that
\* quote and the order of the call.
C34_BuildOnWinnerOnly ==
  /\ \A v \in VenueSet : getQuoteCalls[v] = (IF quoteRequest.sent THEN 1 ELSE 0)
  /\ \A i \in DOMAIN buildSwapCalls :
       LET built == buildSwapCalls[i]
       IN /\ routeResult.kind = "plan"
          /\ built.venue = routeResult.bestDex
          /\ built.quote = routeResult.quote
          /\ built.quote = guarded[built.venue]
          /\ guarded[built.venue].kind = "fulfilled"
          /\ \A v \in VenueSet :
               guarded[v].kind = "fulfilled" => guarded[v].estimatedOut <= built.quote.estimatedOut
          /\ built.orderId = routeOrder.orderId

\* C34 witness: raydium's quote was rejected, meteora's admitted, and the
\* plan's buildTransaction has called buildSwapTx on meteora, each venue
\* having been quoted once.
C34_Witness ==
  /\ guarded["raydium"].kind = "rejected"
  /\ Len(buildSwapCalls) = 1
  /\ buildSwapCalls[1].venue = "meteora"
  /\ buildSwapCalls[1].orderId = "o1"
  /\ \A v \in VenueSet : getQuoteCalls[v] = 1

\* C36: the amount findBestRoute places in the QuoteRequest is
\* floor(order.amount) and is a strictly positive integer, and an order
\* amount <= 0 makes findBestRoute fail with 'Amount must be positive' before
\* any venue is quoted.
C36_RequestAmountPositive ==
  /\ quoteRequest.sent =>
       /\ quoteRequest.amount = routeOrder.amountTenths \div 10
       /\ quoteRequest.amount > 0
  /\ (routePc # "idle" /\ routeOrder.keysValid /\ routeOrder.amountTenths <= 0) =>
       /\ routeResult.kind = "error"
       /\ routeResult.message = "Amount must be positive"
       /\ \A v \in VenueSet : getQuoteCalls[v] = 0

\* The amount of C36 for the orders whose amount is at least one base unit,
\* and the failure for the amounts <= 0.
RequestAmountOfWholeUnits ==
  /\ (quoteRequest.sent /\ routeOrder.amountTenths >= 10) =>
       /\ quoteRequest.amount = routeOrder.amountTenths \div 10
       /\ quoteRequest.amount > 0
  /\ (routePc # "idle" /\ routeOrder.keysValid /\ routeOrder.amountTenths <= 0) =>
       /\ routeResult.kind = "error"
       /\ routeResult.message = "Amount must be positive"
       /\ \A v \in VenueSet : getQuoteCalls[v] = 0

\* The step is a step of intake, of the queue, of the worker or of the hub
\* for order a: a handler of a's request, a delivery of a's job, a step of
\* one of a's orderProcessor executions, or the attach, close or error of a
\* socket of a.
StepFor(a) ==
  \/ SubmitMarketOrder(a)
  \/ ExecuteRespond(a)
  \/ Dequeue(a)
  \/ \E k \in Slots :
       \/ RecordQueued(a, k)
       \/ RecordRouting(a, k)
       \/ AcquireRateLimit(a, k)
       \/ FindBestRoute(a, k)
       \/ RecordBuilding(a, k)
       \/ BuildTransaction(a, k)
       \/ SendFails(a, k)
       \/ SendSubmitted(a, k)
       \/ ConfirmFails(a, k)
       \/ Confirmed(a, k)
       \/ Catch(a, k)
  \/ \E s \in Sockets :
       \/ HandleWebsocket(s, a)
       \/ (boundTo[s] = a /\ (SocketClosing(s) \/ SocketClose(s) \/ SocketError(s)))

\* What belongs to order b: its job (state, payload with emittedStatuses,
\* lastTxSignature and lastError, attempts), the Job objects of its
\* executions, its transactions, its emissions and history row, its backlog
\* and registration in the hub, and the sockets bound to it.
OrderState(b) ==
  <<jobState[b], jobData[b], attemptsMade[b], proc[b], txCount[b], emissions[b],
    statusHistory[b], pendingMessages[b], sockets[b], sentLog[b],
    [s \in {t \in Sockets : boundTo[t] = b} |-> <<readyState[s], inbox[s]>>]>>

StaleSocketEvent(s1, o) ==
  /\ boundTo[s1] = o
  /\ sockets[o] \notin {s1, NoSocket}
  /\ (SocketClose(s1) \/ SocketError(s1))

\* C37: a close or error event of a replaced subscriber s1 neither closes
\* the subscriber s2 that replaced it nor removes s2's registration.
C37_StaleCloseLeavesReplacement ==
  [][\A s1 \in Sockets, o \in Orders :
       StaleSocketEvent(s1, o) =>
         /\ sockets'[o] = sockets[o]
         /\ readyState'[sockets[o]] = readyState[sockets[o]]]_vars

\* Execution k of order o waits in acquireRateLimit.
AtGate(o, k) == proc[o][k].pc = "gate"

\* C38: every processor waiting at the rate-limit gate eventually acquires a
\* slot and goes on to routing.
C38_GateEventuallyPassed ==
  \A o \in Orders, k \in Slots : AtGate(o, k) ~> (proc[o][k].pc = "route")

\* C39: at most one transaction is submitted to the chain for an order,
\* across all attempts of its job.
C39_AtMostOneTransaction ==
  \A o \in Orders : txCount[o] <= 1

\* C40: in every state of the history store, after any sequence of
\* recordNewOrder, appendStatus and recordRoutingDecision calls, every row has
\* a non-empty statusHistory whose first entry is pending, and the row's
\* status is the status of the last statusHistory entry.
C40_StatusIsLastHistoryEntry ==
  \A o \in DOMAIN order_history :
    LET row == order_history[o]
    IN /\ Len(row.statusHistory) >= 1
       /\ row.statusHistory[1].status = "pending"
       /\ row.status = row.statusHistory[Len(row.statusHistory)].status

\* C40 witness: a row that was inserted, then updated by appendStatus twice
\* and by recordRoutingDecision, holds three entries and the status of the
\* last one.
C40_Witness ==
  \E o \in DOMAIN order_history :
    LET row == order_history[o]
    IN /\ Len(row.statusHistory) = 3
       /\ row.statusHistory[2].status = "routing"
       /\ row.status = "confirmed"
       /\ row.quoteResponse # NoQuoteResponse

====
